---- MODULE Spec2Model ----
(***************************************************************************)
(* A model of the poker hand evaluator (gto/hand_evaluator.py) and of the  *)
(* range notation parser (gto/ranges.py) on top of the card model          *)
(* (gto/cards.py).  Pure functions are operators computed the way the      *)
(* code computes them; each specification draws inputs from a bounded set  *)
(* and applies the functions in its actions.                               *)
(***************************************************************************)
EXTENDS Integers, Sequences, FiniteSets, TLC

VARIABLES pc, cards, hole, hand2, board, result, result2, cmp, cmpRev,
          range_str, parsed,
          hand_notation, pct, pct2, villain_range, hero_cards, rank_str, suit_str,
          ret, ret2, ret3,
          exclude, deck_cards, deal_n, dealt_so_far, calls, hand_notation2

\* the arguments and the outcome of parse_range
rangeVars == <<range_str, parsed>>

\* the arguments of the calls of combo_count, range_from_top_pct,
\* blockers_remove, blocked_combos and Card, and the outcomes of up to three
\* calls in a row
callVars == <<hand_notation, pct, pct2, villain_range, hero_cards, rank_str, suit_str,
              ret, ret2, ret3>>

\* the argument of Deck(exclude), the cards of the deck, the argument of the
\* last deal, every card a deal has returned so far, in the order dealt, and
\* the number of calls made on the deck
deckVars == <<exclude, deck_cards, deal_n, dealt_so_far, calls>>

vars == <<pc, cards, hole, hand2, board, result, result2, cmp, cmpRev, rangeVars,
          callVars, deckVars, hand_notation2>>

(***************************************************************************)
(* Generic helpers for Python built-ins.                                   *)
(***************************************************************************)
None == -1

\* Python truthiness of an Optional[int]
Truthy(x) == x # None /\ x # 0

\* the outcome of a call: the value it returns or the exception it raises
Returned(v) == [raised |-> FALSE, value |-> v]

Raised(e) == [raised |-> TRUE, value |-> e]

\* the outcome of a call that has not been made yet
NotRun == [raised |-> FALSE, value |-> "not run"]

Range(s) == {s[i] : i \in DOMAIN s}

RECURSIVE SetMax(_)
SetMax(S) == IF Cardinality(S) = 1 THEN CHOOSE x \in S : TRUE
             ELSE LET x == CHOOSE y \in S : TRUE
                      m == SetMax(S \ {x})
                  IN IF x > m THEN x ELSE m

\* insert x into a descending sequence, after the elements equal to it
RECURSIVE InsertDesc(_, _)
InsertDesc(x, s) ==
    IF s = <<>> THEN <<x>>
    ELSE IF x > Head(s) THEN <<x>> \o s
    ELSE <<Head(s)>> \o InsertDesc(x, Tail(s))

\* sorted(xs, reverse=True) on integers
RECURSIVE SortedDesc(_)
SortedDesc(s) == IF s = <<>> THEN <<>>
                 ELSE InsertDesc(Head(s), SortedDesc(Tail(s)))

\* sorted(set(xs), reverse=True)
RECURSIVE SetSortedDesc(_)
SetSortedDesc(S) == IF S = {} THEN <<>>
                    ELSE LET m == SetMax(S) IN <<m>> \o SetSortedDesc(S \ {m})

\* Python tuple comparison a < b: first differing position decides, a proper
\* prefix is smaller
RECURSIVE TupleLt(_, _)
TupleLt(a, b) ==
    IF a = <<>> THEN b # <<>>
    ELSE IF b = <<>> THEN FALSE
    ELSE IF Head(a) # Head(b) THEN Head(a) < Head(b)
    ELSE TupleLt(Tail(a), Tail(b))

(***************************************************************************)
(* gto/cards.py                                                            *)
(***************************************************************************)
RANKS == <<"2", "3", "4", "5", "6", "7", "8", "9", "T", "J", "Q", "K", "A">>

SUITS == <<"s", "h", "d", "c">>

\* RANK_VALUES = {r: i for i, r in enumerate(RANKS, 2)}
RANK_VALUES ==
    "2" :> 2 @@ "3" :> 3 @@ "4" :> 4 @@ "5" :> 5 @@ "6" :> 6 @@ "7" :> 7 @@ "8" :> 8
    @@ "9" :> 9 @@ "T" :> 10 @@ "J" :> 11 @@ "Q" :> 12 @@ "K" :> 13 @@ "A" :> 14

Card(r, s) == [rank |-> r, suit |-> s]

\* Card.value
value(c) == RANK_VALUES[c.rank]

\* a str argument is a sequence of characters; Concat is the string itself
RECURSIVE Concat(_)
Concat(chars) == IF chars = <<>> THEN "" ELSE Head(chars) \o Concat(Tail(chars))

\* sub in s, for two strings: sub is a run of characters of s
IsSubstring(sub, s) ==
    \E k \in 0..(Len(s) - Len(sub)) : SubSeq(s, k + 1, k + Len(sub)) = sub

\* Card(rank, suit) with __post_init__: the card, or ValueError
Card__post_init__(rank, suit) ==
    IF ~IsSubstring(rank, RANKS) THEN Raised("ValueError")
    ELSE IF ~IsSubstring(suit, SUITS) THEN Raised("ValueError")
    ELSE Returned(Card(Concat(rank), Concat(suit)))

\* Card.value of a constructed card: RANK_VALUES[self.rank], or KeyError
CardValue(c) ==
    IF c.rank \in DOMAIN RANK_VALUES THEN Returned(RANK_VALUES[c.rank])
    ELSE Raised("KeyError")

Lowercase == <<"a", "b", "c", "d", "e", "f", "g", "h", "i", "j", "k", "l", "m",
               "n", "o", "p", "q", "r", "s", "t", "u", "v", "w", "x", "y", "z">>

Uppercase == <<"A", "B", "C", "D", "E", "F", "G", "H", "I", "J", "K", "L", "M",
               "N", "O", "P", "Q", "R", "S", "T", "U", "V", "W", "X", "Y", "Z">>

\* ch.upper() and ch.lower() of one character
Upper(ch) == IF \E i \in DOMAIN Lowercase : Lowercase[i] = ch
             THEN Uppercase[CHOOSE i \in DOMAIN Lowercase : Lowercase[i] = ch]
             ELSE ch

Lower(ch) == IF \E i \in DOMAIN Uppercase : Uppercase[i] = ch
             THEN Lowercase[CHOOSE i \in DOMAIN Uppercase : Uppercase[i] = ch]
             ELSE ch

\* s.strip(): the blank is the only whitespace of the inputs
RECURSIVE StripBlanks(_)
StripBlanks(s) == IF s = <<>> THEN s
                  ELSE IF Head(s) = " " THEN StripBlanks(Tail(s))
                  ELSE IF s[Len(s)] = " " THEN StripBlanks(SubSeq(s, 1, Len(s) - 1))
                  ELSE s

parse_card(text) ==
    LET stripped == StripBlanks(text)
    IN IF Len(stripped) # 2 THEN Raised("ValueError")
       ELSE Card__post_init__(<<Upper(stripped[1])>>, <<Lower(stripped[2])>>)

\* a list comprehension of pairs of cards: ValueError if a Card of it cannot
\* be constructed, else the list of (c1, c2)
RECURSIVE CombosOfPairs(_)
CombosOfPairs(made) ==
    IF made = <<>> THEN Returned(<<>>)
    ELSE LET c1 == Head(made)[1]
             c2 == Head(made)[2]
             rest == CombosOfPairs(Tail(made))
         IN IF c1.raised THEN c1
            ELSE IF c2.raised THEN c2
            ELSE IF rest.raised THEN rest
            ELSE Returned(<< <<c1.value, c2.value>> >> \o rest.value)

\* the pairs (i, j) of places in SUITS, in the order of two nested loops
SuitPairs ==
    LET n == Len(SUITS)
    IN [k \in 1..(n * n) |-> <<((k - 1) \div n) + 1, ((k - 1) % n) + 1>>]

hand_combos(text) ==
    LET n == StripBlanks(text)
        pair_of(r1, r2, ij) == <<Card__post_init__(<<r1>>, <<SUITS[ij[1]]>>),
                                 Card__post_init__(<<r2>>, <<SUITS[ij[2]]>>)>>
        combos(r1, r2, ijs) == CombosOfPairs([k \in DOMAIN ijs |-> pair_of(r1, r2, ijs[k])])
    IN IF Len(n) = 2 /\ n[1] = n[2] THEN
            combos(n[1], n[1], SelectSeq(SuitPairs, LAMBDA ij : ij[1] < ij[2]))
       ELSE IF Len(n) = 3 /\ n[3] = "s" THEN
            combos(n[1], n[2], SelectSeq(SuitPairs, LAMBDA ij : ij[1] = ij[2]))
       ELSE IF Len(n) = 3 /\ n[3] = "o" THEN
            combos(n[1], n[2], SelectSeq(SuitPairs, LAMBDA ij : ij[1] # ij[2]))
       ELSE IF Len(n) = 4 THEN
            CombosOfPairs(<< <<parse_card(SubSeq(n, 1, 2)), parse_card(SubSeq(n, 3, 4))>> >>)
       ELSE Raised("ValueError")

\* [Card(r, s) for r in RANKS for s in SUITS]
AllCards ==
    LET n == Len(SUITS)
    IN [k \in 1..(Len(RANKS) * n) |-> Card(RANKS[((k - 1) \div n) + 1], SUITS[((k - 1) % n) + 1])]

\* Deck(exclude): self.cards, the cards in the order of the two loops that
\* are not in set(exclude)
Deck__init__(excl) ==
    LET excluded == IF excl # <<>> THEN Range(excl) ELSE {}
    IN SelectSeq(AllCards, LAMBDA c : c \notin excluded)

\* the place where s[:n] ends and s[n:] begins, n of either sign
SliceAt(s, n) ==
    IF n >= 0 THEN (IF n <= Len(s) THEN n ELSE Len(s))
    ELSE (IF Len(s) + n >= 0 THEN Len(s) + n ELSE 0)

\* mutant: the cards dealt stay in the deck
Deck_deal_kept(cs, n) ==
    IF n > Len(cs) THEN [out |-> Raised("ValueError"), cards |-> cs]
    ELSE [out |-> Returned(SubSeq(cs, 1, SliceAt(cs, n))), cards |-> cs]

\* Deck.deal(n) on self.cards = cs: the outcome of the call and self.cards
\* after it
Deck_deal(cs, n) ==
    IF n > Len(cs) THEN [out |-> Raised("ValueError"), cards |-> cs]
    ELSE [out |-> Returned(SubSeq(cs, 1, SliceAt(cs, n))),
          cards |-> SubSeq(cs, SliceAt(cs, n) + 1, Len(cs))]

\* mutant: every hand that is not a pair is called suited
simplify_hand_suited(cs) ==
    IF Len(cs) # 2 THEN Raised("ValueError")
    ELSE IF cs[1].rank \notin DOMAIN RANK_VALUES \/ cs[2].rank \notin DOMAIN RANK_VALUES
    THEN Raised("KeyError")
    ELSE LET swap == RANK_VALUES[cs[1].rank] < RANK_VALUES[cs[2].rank]
             r1 == IF swap THEN cs[2].rank ELSE cs[1].rank
             r2 == IF swap THEN cs[1].rank ELSE cs[2].rank
         IN IF r1 = r2 THEN Returned(<<r1, r2>>)
            ELSE Returned(<<r1, r2, "s">>)

\* simplify_hand(cards): the hand-class as a string of characters
simplify_hand(cs) ==
    IF Len(cs) # 2 THEN Raised("ValueError")
    ELSE IF cs[1].rank \notin DOMAIN RANK_VALUES \/ cs[2].rank \notin DOMAIN RANK_VALUES
    THEN Raised("KeyError")
    ELSE LET swap == RANK_VALUES[cs[1].rank] < RANK_VALUES[cs[2].rank]
             r1 == IF swap THEN cs[2].rank ELSE cs[1].rank
             r2 == IF swap THEN cs[1].rank ELSE cs[2].rank
         IN IF r1 = r2 THEN Returned(<<r1, r2>>)
            ELSE Returned(<<r1, r2, IF cs[1].suit = cs[2].suit THEN "s" ELSE "o">>)

(***************************************************************************)
(* gto/hand_evaluator.py                                                   *)
(***************************************************************************)
\* mutant: the ranks of Flush and Full House exchanged
HAND_RANKS_swapped ==
    [n \in {"Royal Flush", "Straight Flush", "Four of a Kind", "Full House",
            "Flush", "Straight", "Three of a Kind", "Two Pair", "One Pair",
            "High Card"} |->
        CASE n = "Royal Flush" -> 9
          [] n = "Straight Flush" -> 8
          [] n = "Four of a Kind" -> 7
          [] n = "Full House" -> 5
          [] n = "Flush" -> 6
          [] n = "Straight" -> 4
          [] n = "Three of a Kind" -> 3
          [] n = "Two Pair" -> 2
          [] n = "One Pair" -> 1
          [] n = "High Card" -> 0]

HAND_RANKS ==
    [n \in {"Royal Flush", "Straight Flush", "Four of a Kind", "Full House",
            "Flush", "Straight", "Three of a Kind", "Two Pair", "One Pair",
            "High Card"} |->
        CASE n = "Royal Flush" -> 9
          [] n = "Straight Flush" -> 8
          [] n = "Four of a Kind" -> 7
          [] n = "Full House" -> 6
          [] n = "Flush" -> 5
          [] n = "Straight" -> 4
          [] n = "Three of a Kind" -> 3
          [] n = "Two Pair" -> 2
          [] n = "One Pair" -> 1
          [] n = "High Card" -> 0]

HandResult(r, cat, k, cs) == [rank |-> r, category |-> cat, kickers |-> k, cards |-> cs]

\* HandResult.__lt__
HandLt(a, b) == IF a.rank # b.rank THEN a.rank < b.rank
                ELSE TupleLt(a.kickers, b.kickers)

\* HandResult.__eq__
HandEq(a, b) == a.rank = b.rank /\ a.kickers = b.kickers

\* HandResult.__le__
HandLe(a, b) == HandEq(a, b) \/ HandLt(a, b)

\* mutant: __gt__ written as not self < other
HandGt_notlt(a, b) == ~HandLt(a, b)

\* mutant: __gt__ that looks at the rank alone
HandGt_rank(a, b) == a.rank > b.rank

\* HandResult.__gt__
HandGt(a, b) == ~HandLe(a, b)

\* HandResult.__ge__
HandGe(a, b) == ~HandLt(a, b)

_is_flush(cs) == Cardinality({cs[i].suit : i \in DOMAIN cs}) = 1

\* mutant: the wheel reported with its highest card, the ace
_is_straight_acehigh(values) ==
    LET v == SetSortedDesc(Range(values))
    IN IF Len(v) < 5 THEN None
       ELSE IF v[1] - v[5] = 4 /\ Len(v) = 5 THEN v[1]
       ELSE IF Range(v) = {14, 2, 3, 4, 5} THEN v[1]
       ELSE None

_is_straight(values) ==
    LET v == SetSortedDesc(Range(values))
    IN IF Len(v) < 5 THEN None
       ELSE IF v[1] - v[5] = 4 /\ Len(v) = 5 THEN v[1]
       ELSE IF Range(v) = {14, 2, 3, 4, 5} THEN 5
       ELSE None

\* Counter(vs): one more for each element in turn
RECURSIVE Counter(_)
Counter(vs) ==
    IF vs = <<>> THEN <<>>
    ELSE LET rest == Counter(Tail(vs))
             v == Head(vs)
         IN IF v \in DOMAIN rest THEN [rest EXCEPT ![v] = @ + 1]
            ELSE rest @@ (v :> 1)

\* mutant: sorted by value alone, key=lambda x: x[0]
FreqSorted_byvalue(counts) ==
    LET keys == DOMAIN counts
        place(k) == 1 + Cardinality({j \in keys : j > k})
    IN [i \in 1..Cardinality(keys) |->
           LET k == CHOOSE key \in keys : place(key) = i IN <<k, counts[k]>>]

\* sorted(counts.items(), key=lambda x: (x[1], x[0]), reverse=True): the
\* keys (count, value) are pairwise different, so an item's place is one
\* more than the number of items with a greater key
FreqSorted(counts) ==
    LET keys == DOMAIN counts
        place(k) == 1 + Cardinality({j \in keys :
                            \/ counts[j] > counts[k]
                            \/ counts[j] = counts[k] /\ j > k})
    IN [i \in 1..Cardinality(keys) |->
           LET k == CHOOSE key \in keys : place(key) = i IN <<k, counts[k]>>]

\* [v for v in values if v != x], values kept in order
RECURSIVE Without(_, _)
Without(values, S) ==
    IF values = <<>> THEN <<>>
    ELSE IF Head(values) \in S THEN Without(Tail(values), S)
    ELSE <<Head(values)>> \o Without(Tail(values), S)

_evaluate_five(cs) ==
    LET values == SortedDesc([i \in DOMAIN cs |-> value(cs[i])])
        counts == Counter([i \in DOMAIN cs |-> value(cs[i])])
        flush == _is_flush(cs)
        straight_high == _is_straight(values)
        freq == FreqSorted(counts)
        pair_vals == SetSortedDesc({v \in DOMAIN counts : counts[v] = 2})
    IN IF flush /\ Truthy(straight_high) THEN
            IF straight_high = 14
            THEN HandResult(9, "Royal Flush", <<14>>, cs)
            ELSE HandResult(8, "Straight Flush", <<straight_high>>, cs)
       ELSE IF freq[1][2] = 4 THEN
            LET quad_val == freq[1][1]
                kicker == SetMax(Range(Without(values, {quad_val})))
            IN HandResult(7, "Four of a Kind", <<quad_val, kicker>>, cs)
       ELSE IF freq[1][2] = 3 /\ freq[2][2] = 2 THEN
            HandResult(6, "Full House", <<freq[1][1], freq[2][1]>>, cs)
       ELSE IF flush THEN HandResult(5, "Flush", values, cs)
       ELSE IF Truthy(straight_high) THEN
            HandResult(4, "Straight", <<straight_high>>, cs)
       ELSE IF freq[1][2] = 3 THEN
            LET trip_val == freq[1][1]
                kicks == SortedDesc(Without(values, {trip_val}))
            IN HandResult(3, "Three of a Kind", <<trip_val>> \o kicks, cs)
       ELSE IF Len(pair_vals) = 2 THEN
            LET kicker == SetMax(Range(Without(values, Range(pair_vals))))
            IN HandResult(2, "Two Pair", <<pair_vals[1], pair_vals[2], kicker>>, cs)
       ELSE IF Len(pair_vals) = 1 THEN
            LET kicks == SortedDesc(Without(values, {pair_vals[1]}))
            IN HandResult(1, "One Pair", <<pair_vals[1]>> \o kicks, cs)
       ELSE HandResult(0, "High Card", values, cs)

\* itertools.combinations(range(lo, n + 1), k): the index tuples in
\* lexicographic order
RECURSIVE Combinations(_, _, _)
Combinations(lo, n, k) ==
    IF k = 0 THEN << <<>> >>
    ELSE IF n - lo + 1 < k THEN <<>>
    ELSE LET with == Combinations(lo + 1, n, k - 1)
         IN [i \in 1..Len(with) |-> <<lo>> \o with[i]] \o Combinations(lo + 1, n, k)

Pick(all_cards, idx) == [i \in DOMAIN idx |-> all_cards[idx[i]]]

\* best = None before the first combination
NoBest == HandResult(None, "None", <<>>, <<>>)

\* mutant: the comparison of the loop turned around, result < best
RECURSIVE BestFrom_lt(_, _, _, _)
BestFrom_lt(all_cards, combos, i, best) ==
    IF i > Len(combos) THEN best
    ELSE LET res == _evaluate_five(Pick(all_cards, combos[i]))
         IN BestFrom_lt(all_cards, combos, i + 1,
                        IF best = NoBest \/ HandLt(res, best) THEN res ELSE best)

\* the loop of evaluate_hand over combos[i..], carrying best
RECURSIVE BestFrom(_, _, _, _)
BestFrom(all_cards, combos, i, best) ==
    IF i > Len(combos) THEN best
    ELSE LET res == _evaluate_five(Pick(all_cards, combos[i]))
         IN BestFrom(all_cards, combos, i + 1,
                     IF best = NoBest \/ HandGt(res, best) THEN res ELSE best)

\* mutant: the test for too few cards off by one, len(all_cards) < 4
evaluate_hand_four(hole_cards, board_cards) ==
    LET all_cards == hole_cards \o board_cards
    IN IF Len(all_cards) < 4 THEN Raised("ValueError")
       ELSE Returned(BestFrom(all_cards, Combinations(1, Len(all_cards), 5), 1, NoBest))

evaluate_hand(hole_cards, board_cards) ==
    LET all_cards == hole_cards \o board_cards
    IN IF Len(all_cards) < 5 THEN Raised("ValueError")
       ELSE Returned(BestFrom(all_cards, Combinations(1, Len(all_cards), 5), 1, NoBest))

\* an exception of either evaluate_hand call leaves compare_hands
compare_hands(hand1, hand_2, board_cards) ==
    LET r1 == evaluate_hand(hand1, board_cards)
        r2 == evaluate_hand(hand_2, board_cards)
    IN IF r1.raised THEN r1
       ELSE IF r2.raised THEN r2
       ELSE IF HandGt(r1.value, r2.value) THEN Returned(1)
       ELSE IF HandLt(r1.value, r2.value) THEN Returned(-1)
       ELSE Returned(0)

(***************************************************************************)
(* gto/ranges.py.  A Python string is a sequence of one-character strings. *)
(***************************************************************************)
\* RANKS.index(ch) for a one-character ch, counted from 0
RanksIndex(ch) ==
    IF \E i \in DOMAIN RANKS : RANKS[i] = ch
    THEN Returned((CHOOSE i \in DOMAIN RANKS : RANKS[i] = ch) - 1)
    ELSE Raised("ValueError")

\* [f"{r}{r}" for r in RANKS], lowest first
ALL_PAIRS == [i \in DOMAIN RANKS |-> <<RANKS[i], RANKS[i]>>]

\* the suited classes, the higher rank first
ALL_SUITED == {<<RANKS[ij[1]], RANKS[ij[2]], "s">> :
                  ij \in {ij \in (DOMAIN RANKS) \X (DOMAIN RANKS) : ij[2] < ij[1]}}

\* the offsuit classes, the higher rank first
ALL_OFFSUIT == {<<RANKS[ij[1]], RANKS[ij[2]], "o">> :
                   ij \in {ij \in (DOMAIN RANKS) \X (DOMAIN RANKS) : ij[2] < ij[1]}}

HAND_RANKING_literal == <<
    <<"A", "A">>, <<"K", "K">>, <<"Q", "Q">>, <<"A", "K", "s">>, <<"J", "J">>,
    <<"A", "Q", "s">>, <<"K", "Q", "s">>, <<"A", "J", "s">>, <<"K", "J", "s">>, <<"T", "T">>,
    <<"A", "K", "o">>, <<"A", "T", "s">>, <<"Q", "J", "s">>, <<"K", "T", "s">>, <<"Q", "T", "s">>,
    <<"J", "T", "s">>, <<"9", "9">>, <<"A", "Q", "o">>, <<"A", "9", "s">>, <<"K", "Q", "o">>,
    <<"K", "9", "s">>, <<"T", "9", "s">>, <<"J", "9", "s">>, <<"Q", "9", "s">>, <<"A", "8", "s">>,
    <<"8", "8">>, <<"A", "5", "s">>, <<"A", "7", "s">>, <<"A", "4", "s">>, <<"A", "6", "s">>,
    <<"A", "3", "s">>, <<"K", "8", "s">>, <<"T", "8", "s">>, <<"A", "2", "s">>, <<"9", "8", "s">>,
    <<"J", "8", "s">>, <<"7", "7">>, <<"Q", "8", "s">>, <<"K", "7", "s">>, <<"A", "J", "o">>,
    <<"8", "7", "s">>, <<"6", "6">>, <<"K", "6", "s">>, <<"A", "T", "u">>, <<"9", "7", "s">>,
    <<"7", "6", "s">>, <<"T", "7", "s">>, <<"K", "5", "s">>, <<"A", "T", "o">>, <<"5", "5">>,
    <<"J", "7", "s">>, <<"8", "6", "s">>, <<"K", "J", "o">>, <<"6", "5", "s">>, <<"Q", "7", "s">>,
    <<"K", "4", "s">>, <<"K", "3", "s">>, <<"K", "2", "s">>, <<"9", "6", "s">>, <<"4", "4">>,
    <<"Q", "J", "o">>, <<"7", "5", "s">>, <<"5", "4", "s">>, <<"A", "9", "o">>, <<"T", "6", "s">>,
    <<"K", "T", "o">>, <<"J", "6", "s">>, <<"Q", "6", "s">>, <<"3", "3">>, <<"8", "5", "s">>,
    <<"6", "4", "s">>, <<"Q", "T", "o">>, <<"2", "2">>, <<"5", "3", "s">>, <<"J", "T", "o">>,
    <<"K", "9", "o">>, <<"J", "9", "o">>, <<"T", "9", "o">>, <<"Q", "9", "o">>, <<"7", "4", "s">>,
    <<"4", "3", "s">>, <<"A", "8", "o">>, <<"A", "5", "o">>, <<"A", "7", "o">>, <<"A", "4", "o">>,
    <<"A", "6", "o">>, <<"A", "3", "o">>, <<"9", "5", "s">>, <<"6", "3", "s">>, <<"A", "2", "o">>,
    <<"5", "2", "s">>, <<"8", "4", "s">>, <<"4", "2", "s">>, <<"T", "8", "o">>, <<"9", "8", "o">>,
    <<"J", "8", "o">>, <<"Q", "8", "o">>, <<"7", "3", "s">>, <<"8", "7", "o">>, <<"3", "2", "s">>,
    <<"6", "2", "s">>, <<"9", "7", "o">>, <<"7", "6", "o">>, <<"K", "8", "o">>, <<"8", "6", "o">>,
    <<"6", "5", "o">>, <<"9", "4", "s">>, <<"9", "3", "s">>, <<"9", "2", "s">>, <<"T", "7", "o">>,
    <<"5", "4", "o">>, <<"8", "3", "s">>, <<"7", "5", "o">>, <<"8", "2", "s">>, <<"K", "7", "o">>,
    <<"K", "6", "o">>, <<"7", "2", "s">>, <<"9", "6", "o">>, <<"J", "7", "o">>, <<"K", "5", "o">>,
    <<"T", "6", "o">>, <<"K", "4", "o">>, <<"K", "3", "o">>, <<"K", "2", "o">>, <<"8", "5", "o">>,
    <<"Q", "7", "o">>, <<"6", "4", "o">>, <<"5", "3", "o">>, <<"J", "6", "o">>, <<"Q", "6", "o">>,
    <<"Q", "5", "o">>, <<"Q", "4", "o">>, <<"Q", "3", "o">>, <<"Q", "2", "o">>, <<"7", "4", "o">>,
    <<"4", "3", "o">>, <<"9", "5", "o">>, <<"6", "3", "o">>, <<"8", "4", "o">>, <<"4", "2", "o">>,
    <<"T", "5", "o">>, <<"T", "4", "o">>, <<"T", "3", "o">>, <<"T", "2", "o">>, <<"5", "2", "o">>,
    <<"J", "5", "o">>, <<"J", "4", "o">>, <<"J", "3", "o">>, <<"J", "2", "o">>, <<"7", "3", "o">>,
    <<"3", "2", "o">>, <<"6", "2", "o">>, <<"9", "4", "o">>, <<"9", "3", "o">>, <<"9", "2", "o">>,
    <<"8", "3", "o">>, <<"8", "2", "o">>, <<"7", "2", "o">>
>>

\* the list after h.replace("ATu", "ATo") on every entry
HAND_RANKING == [i \in DOMAIN HAND_RANKING_literal |->
                    IF HAND_RANKING_literal[i] = <<"A", "T", "u">> THEN <<"A", "T", "o">>
                    ELSE HAND_RANKING_literal[i]]

combo_count(notation) ==
    IF Len(notation) = 2 /\ notation[1] = notation[2] THEN 6
    ELSE IF Len(notation) = 3 /\ notation[3] = "s" THEN 4
    ELSE IF Len(notation) = 3 /\ notation[3] = "o" THEN 12
    ELSE 0

\* sum(combo_count(hands[j]) for j in lo..hi), added up by halves to keep
\* the evaluation shallow
RECURSIVE SumCounts(_, _, _)
SumCounts(hands, lo, hi) ==
    IF lo > hi THEN 0
    ELSE IF lo = hi THEN combo_count(hands[lo])
    ELSE SumCounts(hands, lo, (lo + hi) \div 2) + SumCounts(hands, (lo + hi) \div 2 + 1, hi)

\* sum(combo_count(h) for h in hands)
total_combos(hands) == SumCounts(hands, 1, Len(hands))

\* s.replace(" ", "")
RECURSIVE RemoveSpaces(_)
RemoveSpaces(s) == IF s = <<>> THEN <<>>
                   ELSE IF Head(s) = " " THEN RemoveSpaces(Tail(s))
                   ELSE <<Head(s)>> \o RemoveSpaces(Tail(s))

\* s.split(sep) for a one-character sep
RECURSIVE Split(_, _)
Split(s, sep) ==
    IF \A i \in DOMAIN s : s[i] # sep THEN <<s>>
    ELSE LET i == CHOOSE k \in DOMAIN s : s[k] = sep /\ \A j \in 1..(k - 1) : s[j] # sep
         IN <<SubSeq(s, 1, i - 1)>> \o Split(SubSeq(s, i + 1, Len(s)), sep)

\* s.strip(): the blank is the only whitespace of the inputs
RECURSIVE Strip(_)
Strip(s) == IF s = <<>> THEN s
            ELSE IF Head(s) = " " THEN Strip(Tail(s))
            ELSE IF s[Len(s)] = " " THEN Strip(SubSeq(s, 1, Len(s) - 1))
            ELSE s

\* mutant: the low rank runs up to the high rank itself, range(low_idx,
\* high_idx + 1)
_expand_plus_inclusive(base) ==
    IF Len(base) = 2 /\ base[1] = base[2] THEN
        LET rank_idx == RanksIndex(base[1])
        IN IF rank_idx.raised THEN rank_idx
           ELSE Returned([k \in 1..(Len(RANKS) - rank_idx.value) |->
                             <<RANKS[rank_idx.value + k], RANKS[rank_idx.value + k]>>])
    ELSE IF Len(base) = 3 THEN
        LET high == base[1]
            low == base[2]
            kind == base[3]
            low_idx == RanksIndex(low)
            high_idx == RanksIndex(high)
        IN IF low_idx.raised THEN low_idx
           ELSE IF high_idx.raised THEN high_idx
           ELSE Returned([k \in 1..(high_idx.value + 1 - low_idx.value) |->
                             <<high, RANKS[low_idx.value + k], kind>>])
    ELSE Returned(<<base>>)

_expand_plus(base) ==
    IF Len(base) = 2 /\ base[1] = base[2] THEN
        LET rank_idx == RanksIndex(base[1])
        IN IF rank_idx.raised THEN rank_idx
           ELSE Returned([k \in 1..(Len(RANKS) - rank_idx.value) |->
                             <<RANKS[rank_idx.value + k], RANKS[rank_idx.value + k]>>])
    ELSE IF Len(base) = 3 THEN
        LET high == base[1]
            low == base[2]
            kind == base[3]
            low_idx == RanksIndex(low)
            high_idx == RanksIndex(high)
        IN IF low_idx.raised THEN low_idx
           ELSE IF high_idx.raised THEN high_idx
           ELSE Returned([k \in 1..(high_idx.value - low_idx.value) |->
                             <<high, RANKS[low_idx.value + k], kind>>])
    ELSE Returned(<<base>>)

Min(a, b) == IF a <= b THEN a ELSE b

Max(a, b) == IF a >= b THEN a ELSE b

\* mutant: the endpoints taken in the order written, without min and max
_expand_dash_unordered(term) ==
    LET parts == Split(term, "-")
    IN IF Len(parts) # 2 THEN Returned(<<term>>)
       ELSE LET start == parts[1]
                end == parts[2]
            IN IF /\ Len(start) = 2 /\ Len(end) = 2
                  /\ start[1] = start[2] /\ end[1] = end[2] THEN
                    LET a == RanksIndex(start[1])
                        b == RanksIndex(end[1])
                    IN IF a.raised THEN a
                       ELSE IF b.raised THEN b
                       ELSE Returned([k \in 1..(b.value - a.value + 1) |->
                                         <<RANKS[a.value + k], RANKS[a.value + k]>>])
               ELSE IF /\ Len(start) = 3 /\ Len(end) = 3
                       /\ start[1] = end[1] /\ start[3] = end[3] THEN
                    LET high == start[1]
                        kind == start[3]
                        a == RanksIndex(start[2])
                        b == RanksIndex(end[2])
                    IN IF a.raised THEN a
                       ELSE IF b.raised THEN b
                       ELSE Returned([k \in 1..(b.value - a.value + 1) |->
                                         <<high, RANKS[a.value + k], kind>>])
               ELSE Returned(<<term>>)

_expand_dash(term) ==
    LET parts == Split(term, "-")
    IN IF Len(parts) # 2 THEN Returned(<<term>>)
       ELSE LET start == parts[1]
                end == parts[2]
            IN IF /\ Len(start) = 2 /\ Len(end) = 2
                  /\ start[1] = start[2] /\ end[1] = end[2] THEN
                    LET a == RanksIndex(start[1])
                        b == RanksIndex(end[1])
                    IN IF a.raised THEN a
                       ELSE IF b.raised THEN b
                       ELSE LET lo == Min(a.value, b.value)
                                hi == Max(a.value, b.value)
                            IN Returned([k \in 1..(hi - lo + 1) |->
                                            <<RANKS[lo + k], RANKS[lo + k]>>])
               ELSE IF /\ Len(start) = 3 /\ Len(end) = 3
                       /\ start[1] = end[1] /\ start[3] = end[3] THEN
                    LET high == start[1]
                        kind == start[3]
                        a == RanksIndex(start[2])
                        b == RanksIndex(end[2])
                    IN IF a.raised THEN a
                       ELSE IF b.raised THEN b
                       ELSE LET lo == Min(a.value, b.value)
                                hi == Max(a.value, b.value)
                            IN Returned([k \in 1..(hi - lo + 1) |->
                                            <<high, RANKS[lo + k], kind>>])
               ELSE Returned(<<term>>)

\* mutant: a hand that is not in the table sorts first
_hand_strength_index_first(hand) ==
    IF \E i \in DOMAIN HAND_RANKING : HAND_RANKING[i] = hand
    THEN (CHOOSE i \in DOMAIN HAND_RANKING :
             /\ HAND_RANKING[i] = hand
             /\ \A j \in 1..(i - 1) : HAND_RANKING[j] # hand) - 1
    ELSE 0

\* HAND_RANKING.index(hand), counted from 0, or the length of the table
_hand_strength_index(hand) ==
    IF \E i \in DOMAIN HAND_RANKING : HAND_RANKING[i] = hand
    THEN (CHOOSE i \in DOMAIN HAND_RANKING :
             /\ HAND_RANKING[i] = hand
             /\ \A j \in 1..(i - 1) : HAND_RANKING[j] # hand) - 1
    ELSE Len(HAND_RANKING)

\* what the body of the loop of parse_range adds to hands for one part: the
\* list of hands, or the exception that leaves parse_range
PartHands(raw) ==
    LET part == Strip(raw)
    IN IF part = <<>> THEN Returned(<<>>)
       ELSE IF part[Len(part)] = "+" THEN _expand_plus(SubSeq(part, 1, Len(part) - 1))
       ELSE IF (\E i \in DOMAIN part : part[i] = "-") /\ Len(part) > 3 THEN _expand_dash(part)
       ELSE Returned(<<part>>)

\* the loop of parse_range over parts[i..], carrying the set hands
RECURSIVE ParseParts(_, _, _)
ParseParts(parts, i, hands) ==
    IF i > Len(parts) THEN Returned(hands)
    ELSE LET more == PartHands(parts[i])
         IN IF more.raised THEN more
            ELSE ParseParts(parts, i + 1, hands \cup Range(more.value))

RECURSIVE SetToSeq(_)
SetToSeq(S) == IF S = {} THEN <<>>
               ELSE LET x == CHOOSE y \in S : TRUE IN <<x>> \o SetToSeq(S \ {x})

Rotated(s, k) == [i \in DOMAIN s |-> s[((i + k - 1) % Len(s)) + 1]]

Reversed(s) == [i \in DOMAIN s |-> s[Len(s) + 1 - i]]

\* The order in which a set of strings is iterated depends on the hashes of
\* the strings, which change from one run of the interpreter to the next.
\* The orders tried are one enumeration of the set rotated by any number of
\* places, forwards and backwards: every order of a set of up to three
\* elements, and 2 * n orders of a larger one.
IterationOrders(S) ==
    IF S = {} THEN {<<>>}
    ELSE LET base == SetToSeq(S)
         IN {Rotated(base, k) : k \in 0..(Len(base) - 1)} \cup
            {Reversed(Rotated(base, k)) : k \in 0..(Len(base) - 1)}

\* the (key, item) pairs sorted() builds, each key computed once
RECURSIVE Decorated(_)
Decorated(items) ==
    IF items = <<>> THEN <<>>
    ELSE <<(<<_hand_strength_index(Head(items)), Head(items)>>)>> \o Decorated(Tail(items))

\* insert a pair behind every pair whose key is not greater
RECURSIVE InsertByKey(_, _)
InsertByKey(x, s) ==
    IF s = <<>> THEN <<x>>
    ELSE IF x[1] < Head(s)[1] THEN <<x>> \o s
    ELSE <<Head(s)>> \o InsertByKey(x, Tail(s))

RECURSIVE SortByKey(_)
SortByKey(pairs) ==
    IF pairs = <<>> THEN <<>>
    ELSE InsertByKey(pairs[Len(pairs)], SortByKey(SubSeq(pairs, 1, Len(pairs) - 1)))

\* sorted(items, key=lambda h: _hand_strength_index(h)): a stable sort
SortedByStrength(items) ==
    LET pairs == SortByKey(Decorated(items))
    IN [i \in DOMAIN pairs |-> pairs[i][2]]

\* the outcomes of parse_range(s): the exception, or the sorted list for
\* each order in which the set hands may be iterated
parse_range(s) ==
    LET hands == ParseParts(Split(RemoveSpaces(s), ","), 1, {})
    IN IF hands.raised THEN {hands}
       ELSE {Returned(SortedByStrength(order)) : order \in IterationOrders(hands.value)}

\* a percentage is counted in units of 1/PctDen percent, PctDen a power of
\* two, so that pct / 100 * 1326 compares with the whole numbers of
\* combinations as the floating-point target of the code does
PctBits == 2

PctDen == 2 ^ PctBits

\* total_combos = 1326, the local of range_from_top_pct
top_total_combos == 1326

\* running plus count against target = total_combos * (pct / 100), both
\* sides multiplied by 100 * PctDen
AboveTarget(n, p) == n * 100 * PctDen > top_total_combos * p

ReachesTarget(n, p) == n * 100 * PctDen >= top_total_combos * p

\* sum(combo_count(HAND_RANKING[j]) for j in lo..hi), by halves
RECURSIVE SumCombos(_, _)
SumCombos(lo, hi) ==
    IF lo > hi THEN 0
    ELSE IF lo = hi THEN combo_count(HAND_RANKING[lo])
    ELSE SumCombos(lo, (lo + hi) \div 2) + SumCombos((lo + hi) \div 2 + 1, hi)

RECURSIVE BuildRunning(_, _)
BuildRunning(lo, hi) ==
    IF lo = hi THEN <<SumCombos(1, lo)>>
    ELSE BuildRunning(lo, (lo + hi) \div 2) \o BuildRunning((lo + hi) \div 2 + 1, hi)

\* running after the i-th pass of the loop that did not break, for each i
RunningAfter == BuildRunning(1, Len(HAND_RANKING))

\* running at the start of the i-th pass of the loop
RunningBefore(i) == IF i = 1 THEN 0 ELSE RunningAfter[i - 1]

\* mutant: the first break left out
BreaksBefore_never(p, i) == FALSE

\* mutant: the comparison of the first break turned around
BreaksBefore_below(p, i) ==
    /\ ~AboveTarget(RunningBefore(i) + combo_count(HAND_RANKING[i]), p)
    /\ RunningBefore(i) > 0

\* the i-th pass leaves the loop at its first break, before the append
BreaksBefore(p, i) ==
    /\ AboveTarget(RunningBefore(i) + combo_count(HAND_RANKING[i]), p)
    /\ RunningBefore(i) > 0

\* the i-th pass leaves the loop at its second break, after the append
BreaksAfter(p, i) ==
    /\ ~BreaksBefore(p, i)
    /\ ReachesTarget(RunningBefore(i) + combo_count(HAND_RANKING[i]), p)

\* the loop of range_from_top_pct: result is what has been appended when
\* the first pass that breaks is left, or the whole table when none does
TopLoop(p) ==
    LET breaks == {i \in DOMAIN HAND_RANKING : BreaksBefore(p, i) \/ BreaksAfter(p, i)}
    IN IF breaks = {} THEN HAND_RANKING
       ELSE LET i == CHOOSE k \in breaks : \A j \in breaks : k <= j
            IN IF BreaksBefore(p, i) THEN SubSeq(HAND_RANKING, 1, i - 1)
               ELSE SubSeq(HAND_RANKING, 1, i)

\* mutant: the upper end of the interval shut out, 100 percent raises
range_from_top_pct_open(p) ==
    IF p <= 0 \/ p >= 100 * PctDen THEN Raised("ValueError")
    ELSE Returned(TopLoop(p))

range_from_top_pct(p) ==
    IF p <= 0 \/ p > 100 * PctDen THEN Raised("ValueError")
    ELSE Returned(TopLoop(p))

\* mutant: or in the place of and, a combination with one live card is kept
Remaining_either(combos, hc) ==
    SelectSeq(combos, LAMBDA c : c[1] \notin Range(hc) \/ c[2] \notin Range(hc))

\* mutant: the first dead card alone is looked at
Remaining_first(combos, hc) ==
    SelectSeq(combos, LAMBDA c : hc = <<>> \/ (c[1] # hc[1] /\ c[2] # hc[1]))

\* [(c1, c2) for c1, c2 in combos if c1 not in hero_cards and c2 not in
\* hero_cards]
Remaining(combos, hc) ==
    SelectSeq(combos, LAMBDA c : c[1] \notin Range(hc) /\ c[2] \notin Range(hc))

\* the loop of blockers_remove over vr[i..], carrying result
RECURSIVE BlockersLoop(_, _, _, _)
BlockersLoop(vr, hc, i, res) ==
    IF i > Len(vr) THEN Returned(res)
    ELSE LET combos == hand_combos(vr[i])
         IN IF combos.raised THEN combos
            ELSE IF Remaining(combos.value, hc) # <<>>
                 THEN BlockersLoop(vr, hc, i + 1, Append(res, vr[i]))
                 ELSE BlockersLoop(vr, hc, i + 1, res)

blockers_remove(vr, hc) == BlockersLoop(vr, hc, 1, <<>>)

blocked_combos(h, hc) ==
    LET combos == hand_combos(h)
    IN IF combos.raised THEN combos
       ELSE Returned(combo_count(h) - Len(Remaining(combos.value, hc)))

\* no call of the range arithmetic, the blocker filter or Card has been made
NoCalls ==
    /\ hand_notation = <<>> /\ pct = 0 /\ pct2 = 0
    /\ villain_range = <<>> /\ hero_cards = <<>>
    /\ rank_str = <<>> /\ suit_str = <<>>
    /\ ret = NotRun /\ ret2 = NotRun /\ ret3 = NotRun

\* no Deck has been constructed
NoDeck ==
    /\ exclude = <<>> /\ deck_cards = <<>> /\ deal_n = 0
    /\ dealt_so_far = <<>> /\ calls = 0

(***************************************************************************)
(* Bounded decks the inputs are drawn from.                                *)
(***************************************************************************)
\* the number of top ranks (A, K, ...) present in all four suits; every
\* other rank is present in spades only
FullRanks == 5

FiveDeckSet == {Card(RANKS[i], "s") : i \in DOMAIN RANKS} \cup
               {Card(RANKS[i], SUITS[j]) : i \in (Len(RANKS) - FullRanks + 1)..Len(RANKS),
                                           j \in DOMAIN SUITS}

\* a fixed enumeration of a set of cards: by rank, then by suit
CardIndex(c) == 4 * (CHOOSE i \in DOMAIN RANKS : RANKS[i] = c.rank)
                + (CHOOSE j \in DOMAIN SUITS : SUITS[j] = c.suit)

RECURSIVE DeckSeq(_)
DeckSeq(S) == IF S = {} THEN <<>>
              ELSE LET c == CHOOSE x \in S : \A y \in S : CardIndex(x) <= CardIndex(y)
                   IN <<c>> \o DeckSeq(S \ {c})

FiveDeck == DeckSeq(FiveDeckSet)

\* the largest board handed to evaluate_hand
MaxBoard == 5

\* six spades in a row up to the ace, the other kings and the nine of hearts
EvalDeckSet == {Card("9", "s"), Card("T", "s"), Card("J", "s"), Card("Q", "s"),
                Card("K", "s"), Card("A", "s"), Card("K", "h"), Card("K", "d"),
                Card("K", "c"), Card("9", "h")}

EvalDeck == DeckSeq(EvalDeckSet)

\* the cards compare_hands is tried on: EvalDeck without the king of clubs
CompareDeck == DeckSeq(EvalDeckSet \ {Card("K", "c")})

\* the cards the reorderings are tried on: seven cards of EvalDeck
PermDeck == DeckSeq(EvalDeckSet \ {Card("A", "s"), Card("K", "d"), Card("K", "c")})

\* the smallest board handed to compare_hands
MinCompareBoard == 3

\* the sequences of k cards of deck, in the order of deck
SubDecks(deck, k) == LET combos == Combinations(1, Len(deck), k)
                     IN {Pick(deck, combos[i]) : i \in DOMAIN combos}

\* cs without the cards of sub, in the order of cs
RECURSIVE Rest(_, _)
Rest(cs, sub) ==
    IF cs = <<>> THEN <<>>
    ELSE IF Head(cs) \in Range(sub) THEN Rest(Tail(cs), sub)
    ELSE <<Head(cs)>> \o Rest(Tail(cs), sub)

(***************************************************************************)
(* Five-card scoring: the input is any five different cards of FiveDeck.   *)
(***************************************************************************)
InitFive ==
    /\ NoDeck
    /\ hand_notation2 = <<>>
    /\ pc = "five"
    /\ \E i1 \in 1..Len(FiveDeck) : \E i2 \in (i1+1)..Len(FiveDeck) :
       \E i3 \in (i2+1)..Len(FiveDeck) : \E i4 \in (i3+1)..Len(FiveDeck) :
       \E i5 \in (i4+1)..Len(FiveDeck) :
          cards = <<FiveDeck[i1], FiveDeck[i2], FiveDeck[i3], FiveDeck[i4], FiveDeck[i5]>>
    /\ hole = <<>> /\ hand2 = <<>> /\ board = <<>>
    /\ result = NotRun /\ result2 = NotRun
    /\ cmp = NotRun /\ cmpRev = NotRun
    /\ range_str = <<>> /\ parsed = NotRun
    /\ NoCalls

EvaluateFive ==
    /\ pc = "five"
    /\ result' = Returned(_evaluate_five(cards))
    /\ pc' = "scored"
    /\ UNCHANGED <<cards, hole, hand2, board, result2, cmp, cmpRev, rangeVars, callVars,
                   deckVars, hand_notation2>>

NextFive == EvaluateFive

SpecFive == InitFive /\ [][NextFive]_vars

(***************************************************************************)
(* What poker says about five cards, stated without the evaluator's own    *)
(* intermediate values.                                                    *)
(***************************************************************************)
Wheel == {14, 2, 3, 4, 5}

ValuesOf(cs) == {value(cs[i]) : i \in DOMAIN cs}

CountOf(cs, v) == Cardinality({i \in DOMAIN cs : value(cs[i]) = v})

SameSuit(cs) == \A i, j \in DOMAIN cs : cs[i].suit = cs[j].suit

HighOf(cs) == CHOOSE m \in ValuesOf(cs) : \A v \in ValuesOf(cs) : v <= m

LowOf(cs) == CHOOSE m \in ValuesOf(cs) : \A v \in ValuesOf(cs) : v >= m

IsRun(cs) == /\ Cardinality(ValuesOf(cs)) = 5
             /\ HighOf(cs) - LowOf(cs) = 4 \/ ValuesOf(cs) = Wheel

\* the top card of a run: the five for the wheel
RunHigh(cs) == IF ValuesOf(cs) = Wheel THEN 5 ELSE HighOf(cs)

HasCount(cs, n) == \E v \in ValuesOf(cs) : CountOf(cs, v) = n

NumPairs(cs) == Cardinality({v \in ValuesOf(cs) : CountOf(cs, v) = 2})

StraightNames == {"Straight", "Straight Flush", "Royal Flush"}

\* first match wins, in the order of precedence
CategoryOf(cs) ==
    IF SameSuit(cs) /\ IsRun(cs) /\ RunHigh(cs) = 14 THEN "Royal Flush"
    ELSE IF SameSuit(cs) /\ IsRun(cs) THEN "Straight Flush"
    ELSE IF HasCount(cs, 4) THEN "Four of a Kind"
    ELSE IF HasCount(cs, 3) /\ HasCount(cs, 2) THEN "Full House"
    ELSE IF SameSuit(cs) THEN "Flush"
    ELSE IF IsRun(cs) THEN "Straight"
    ELSE IF HasCount(cs, 3) THEN "Three of a Kind"
    ELSE IF NumPairs(cs) = 2 THEN "Two Pair"
    ELSE IF NumPairs(cs) = 1 THEN "One Pair"
    ELSE "High Card"

\* k lists every card value of cs, highest first
AllDescending(cs, k) ==
    /\ Len(k) = 5
    /\ \A i \in 1..4 : k[i] >= k[i + 1]
    /\ \A v \in ValuesOf(cs) : Cardinality({i \in DOMAIN k : k[i] = v}) = CountOf(cs, v)

\* k[from..] are the values that occur once, highest first
SinglesDescending(cs, k, from) ==
    /\ \A i \in from..Len(k) : CountOf(cs, k[i]) = 1
    /\ \A i \in from..(Len(k) - 1) : k[i] > k[i + 1]

KickersShape(cs, cat, k) ==
    CASE cat = "Four of a Kind" ->
            Len(k) = 2 /\ CountOf(cs, k[1]) = 4 /\ CountOf(cs, k[2]) = 1
      [] cat = "Full House" ->
            Len(k) = 2 /\ CountOf(cs, k[1]) = 3 /\ CountOf(cs, k[2]) = 2
      [] cat \in {"Flush", "High Card"} -> AllDescending(cs, k)
      [] cat \in StraightNames -> k = <<RunHigh(cs)>>
      [] cat = "Three of a Kind" ->
            Len(k) = 3 /\ CountOf(cs, k[1]) = 3 /\ SinglesDescending(cs, k, 2)
      [] cat = "Two Pair" ->
            /\ Len(k) = 3 /\ CountOf(cs, k[1]) = 2 /\ CountOf(cs, k[2]) = 2
            /\ k[1] > k[2] /\ CountOf(cs, k[3]) = 1
      [] cat = "One Pair" ->
            Len(k) = 4 /\ CountOf(cs, k[1]) = 2 /\ SinglesDescending(cs, k, 2)
      [] OTHER -> FALSE

\* the length of the kickers of each rank 0..9
KickersLen == <<5, 4, 3, 3, 1, 5, 2, 2, 1, 1>>

\* C3: five cards are scored as a straight (Straight, Straight Flush or Royal
\* Flush) iff their values are five different ones with max - min = 4 or are
\* exactly A,2,3,4,5; the wheel has kickers (5,), below the high card of every
\* other straight; a wheel of one suit is a Straight Flush, never a Royal
\* Flush; an ace and a two together make no other straight
ThmC3 ==
    pc = "scored" =>
        LET r == result.value
        IN /\ (r.category \in StraightNames) <=> IsRun(cards)
           /\ r.category \in StraightNames /\ ValuesOf(cards) # Wheel
                 => r.kickers = <<HighOf(cards)>> /\ r.kickers[1] > 5
           /\ ValuesOf(cards) = Wheel =>
                 /\ r.kickers = <<5>>
                 /\ r.category = (IF SameSuit(cards) THEN "Straight Flush" ELSE "Straight")
           /\ {14, 2} \subseteq ValuesOf(cards) /\ ValuesOf(cards) # Wheel
                 => r.category \notin StraightNames

\* a wheel of one suit has been scored a Straight Flush with kickers (5,)
WitC3 ==
    /\ pc = "scored"
    /\ ValuesOf(cards) = Wheel /\ SameSuit(cards)
    /\ result.value.category = "Straight Flush" /\ result.value.kickers = <<5>>

\* C4: the kickers of a five-card score have the shape of its category, so
\* their length depends on the rank alone
ThmC4 ==
    pc = "scored" =>
        LET r == result.value
        IN /\ KickersShape(cards, r.category, r.kickers)
           /\ Len(r.kickers) = KickersLen[r.rank + 1]

\* a full house whose triple is lower than its pair has been scored
WitC4 ==
    /\ pc = "scored"
    /\ result.value.category = "Full House"
    /\ result.value.kickers = <<13, 14>>

\* C5: five-card scoring names the first category that applies in the order
\* of precedence, and its rank is in 0..9 and is the HAND_RANKS value of that
\* name, HAND_RANKS being one-to-one from the 10 names onto 0..9
ThmC5 ==
    pc = "scored" =>
        LET r == result.value
        IN /\ r.category = CategoryOf(cards)
           /\ r.category \in DOMAIN HAND_RANKS
           /\ r.rank \in 0..9
           /\ r.rank = HAND_RANKS[r.category]
           /\ Cardinality(DOMAIN HAND_RANKS) = 10
           /\ {HAND_RANKS[n] : n \in DOMAIN HAND_RANKS} = 0..9

\* ten to ace of one suit, both a flush and a straight, has been scored a
\* Royal Flush of rank 9
WitC5 ==
    /\ pc = "scored"
    /\ SameSuit(cards) /\ ValuesOf(cards) = 10..14
    /\ result.value.category = "Royal Flush" /\ result.value.rank = 9

(***************************************************************************)
(* evaluate_hand: two hole cards and a board of 0..MaxBoard other cards    *)
(* of EvalDeck.                                                            *)
(***************************************************************************)
InitEval ==
    /\ NoDeck
    /\ hand_notation2 = <<>>
    /\ pc = "eval"
    /\ \E b \in 0..MaxBoard : \E all \in SubDecks(EvalDeck, 2 + b) :
       \E h \in SubDecks(all, 2) :
          /\ hole = h
          /\ board = Rest(all, h)
    /\ cards = <<>> /\ hand2 = <<>>
    /\ result = NotRun /\ result2 = NotRun
    /\ cmp = NotRun /\ cmpRev = NotRun
    /\ range_str = <<>> /\ parsed = NotRun
    /\ NoCalls

EvaluateHand ==
    /\ pc = "eval"
    /\ result' = evaluate_hand(hole, board)
    /\ pc' = "evaluated"
    /\ UNCHANGED <<cards, hole, hand2, board, result2, cmp, cmpRev, rangeVars, callVars,
                   deckVars, hand_notation2>>

NextEval == EvaluateHand

SpecEval == InitEval /\ [][NextEval]_vars

(***************************************************************************)
(* compare_hands: two hands of two cards and a board of MinCompareBoard..  *)
(* MaxBoard cards, all different cards of CompareDeck; then the same call  *)
(* with the hands exchanged.                                               *)
(***************************************************************************)
InitCompare ==
    /\ NoDeck
    /\ hand_notation2 = <<>>
    /\ pc = "compare"
    /\ \E h1 \in SubDecks(CompareDeck, 2) :
       \E h2 \in SubDecks(Rest(CompareDeck, h1), 2) :
       \E b \in MinCompareBoard..MaxBoard :
       \E bd \in SubDecks(Rest(Rest(CompareDeck, h1), h2), b) :
          /\ hole = h1
          /\ hand2 = h2
          /\ board = bd
    /\ cards = <<>>
    /\ result = NotRun /\ result2 = NotRun
    /\ cmp = NotRun /\ cmpRev = NotRun
    /\ range_str = <<>> /\ parsed = NotRun
    /\ NoCalls

\* compare_hands(hole, hand2, board); result and result2 are its r1 and r2
CompareHands ==
    /\ pc = "compare"
    /\ result' = evaluate_hand(hole, board)
    /\ result2' = evaluate_hand(hand2, board)
    /\ cmp' = compare_hands(hole, hand2, board)
    /\ pc' = "compared"
    /\ UNCHANGED <<cards, hole, hand2, board, cmpRev, rangeVars, callVars,
                   deckVars, hand_notation2>>

\* compare_hands(hand2, hole, board)
CompareReversed ==
    /\ pc = "compared"
    /\ cmpRev' = compare_hands(hand2, hole, board)
    /\ pc' = "reversed"
    /\ UNCHANGED <<cards, hole, hand2, board, result, result2, cmp, rangeVars, callVars,
                   deckVars, hand_notation2>>

NextCompare == CompareHands \/ CompareReversed

SpecCompare == InitCompare /\ [][NextCompare]_vars

(***************************************************************************)
(* evaluate_hand on reordered arguments: after the call on hole and board  *)
(* in deck order, a second call on any permutation of each; cards keeps    *)
(* the arguments of the first call.                                        *)
(***************************************************************************)
InitPerm ==
    /\ NoDeck
    /\ hand_notation2 = <<>>
    /\ pc = "eval"
    /\ \E b \in MinCompareBoard..MaxBoard : \E all \in SubDecks(PermDeck, 2 + b) :
       \E h \in SubDecks(all, 2) :
          /\ hole = h
          /\ board = Rest(all, h)
    /\ cards = <<>> /\ hand2 = <<>>
    /\ result = NotRun /\ result2 = NotRun
    /\ cmp = NotRun /\ cmpRev = NotRun
    /\ range_str = <<>> /\ parsed = NotRun
    /\ NoCalls

Permuted(s, p) == [i \in DOMAIN s |-> s[p[i]]]

Reorder ==
    /\ pc = "evaluated"
    /\ \E ph \in Permutations(DOMAIN hole) : \E pb \in Permutations(DOMAIN board) :
          /\ hole' = Permuted(hole, ph)
          /\ board' = Permuted(board, pb)
          /\ result2' = evaluate_hand(Permuted(hole, ph), Permuted(board, pb))
    /\ cards' = hole \o board
    /\ pc' = "reordered"
    /\ UNCHANGED <<hand2, result, cmp, cmpRev, rangeVars, callVars,
                   deckVars, hand_notation2>>

NextPerm == EvaluateHand \/ Reorder

SpecPerm == InitPerm /\ [][NextPerm]_vars

(***************************************************************************)
(* parse_range: the range expression is up to MaxTerms terms of            *)
(* RangeTerms joined by commas.                                            *)
(***************************************************************************)
MaxTerms == 2

RangeTerms == <<
    <<>>,                                    \* ""
    <<"A", "A">>,                            \* "AA"
    <<"Q", "Q">>,                            \* "QQ"
    <<"A", "K", "s">>,                       \* "AKs"
    <<"A", "T", "o">>,                       \* "ATo"
    <<"Q", "2", "s">>,                       \* "Q2s"
    <<"J", "2", "s">>,                       \* "J2s"
    <<"X", "X">>,                            \* "XX"
    <<"Y", "Y">>,                            \* "YY"
    <<"A", "K">>,                            \* "AK"
    <<"Q", "Q", "+">>,                       \* "QQ+"
    <<"A", "J", "s", "+">>,                  \* "AJs+"
    <<"Q", "4", "s", "+">>,                  \* "Q4s+"
    <<"X", "X", "+">>,                       \* "XX+"
    <<"A", "X", "s", "+">>,                  \* "AXs+"
    <<"A", "K", "+">>,                       \* "AK+"
    <<"J", "J", "-", "K", "K">>,             \* "JJ-KK"
    <<"K", "K", "-", "J", "J">>,             \* "KK-JJ"
    <<"K", "T", "s", "-", "K", "Q", "s">>,   \* "KTs-KQs"
    <<"X", "X", "-", "Y", "Y">>,             \* "XX-YY"
    <<"A", "K", "s", "-", "A", "Q", "o">>,   \* "AKs-AQo"
    <<"K", " ", "K">>,                       \* "K K"
    <<"A", "-", "K">>                        \* "A-K"
>>

\* ",".join(terms)
RECURSIVE Join(_)
Join(terms) == IF terms = <<>> THEN <<>>
               ELSE IF Len(terms) = 1 THEN terms[1]
               ELSE terms[1] \o <<",">> \o Join(Tail(terms))

\* the other variables, while parse_range runs
NoHands ==
    /\ cards = <<>> /\ hole = <<>> /\ hand2 = <<>> /\ board = <<>>
    /\ result = NotRun /\ result2 = NotRun
    /\ cmp = NotRun /\ cmpRev = NotRun

InitRange ==
    /\ NoDeck
    /\ hand_notation2 = <<>>
    /\ pc = "range"
    /\ \E n \in 0..MaxTerms : \E ts \in [1..n -> DOMAIN RangeTerms] :
          range_str = Join([i \in 1..n |-> RangeTerms[ts[i]]])
    /\ parsed = NotRun
    /\ NoHands
    /\ NoCalls

ParseRange ==
    /\ pc = "range"
    /\ \E out \in parse_range(range_str) : parsed' = out
    /\ pc' = "parsed"
    /\ UNCHANGED <<cards, hole, hand2, board, result, result2, cmp, cmpRev, range_str,
                   callVars,
                   deckVars, hand_notation2>>

NextRange == ParseRange

SpecRange == InitRange /\ [][NextRange]_vars

\* (rank, kickers) as one tuple
ScoreOf(r) == <<r.rank>> \o r.kickers

\* the lexicographic order of tuples of integers, a proper prefix being lower
LexLess(a, b) ==
    \/ \E i \in (DOMAIN a) \cap (DOMAIN b) :
          /\ a[i] < b[i]
          /\ \A j \in 1..(i - 1) : a[j] = b[j]
    \/ /\ Len(a) < Len(b)
       /\ \A j \in DOMAIN a : a[j] = b[j]

\* the five-card scores of the 5-card subsets of hole + board
SubsetScores(all_cards) == {ScoreOf(_evaluate_five(five)) : five \in SubDecks(all_cards, 5)}

\* C1: with 5 or more different cards in hole + board, evaluate_hand returns
\* the score of one 5-card subset and no 5-card subset scores higher in the
\* lexicographic order of (rank, kickers); a Straight Flush or Royal Flush is
\* returned only when one 5-card subset is of one suit and a run
ThmC1 ==
    pc = "evaluated" /\ Len(hole) + Len(board) >= 5 =>
        /\ ~result.raised
        /\ LET scores == SubsetScores(hole \o board)
               best == ScoreOf(result.value)
           IN /\ best \in scores
              /\ \A sc \in scores : ~LexLess(best, sc)
        /\ result.value.rank >= 8 =>
               \E five \in SubDecks(hole \o board, 5) : SameSuit(five) /\ IsRun(five)

\* seven cards that hold a flush and, in another subset, a straight, but no
\* straight flush: the flush has been returned
WitC1 ==
    /\ pc = "evaluated" /\ Len(hole) + Len(board) = 7
    /\ ~result.raised /\ result.value.category = "Flush"
    /\ \E five \in SubDecks(hole \o board, 5) : IsRun(five)

\* C2: compare_hands returns +1, -1 or 0 as the (rank, kickers) of the first
\* hand's evaluation is lexicographically greater than, smaller than or equal
\* to that of the second; exchanging the hands negates the outcome, and two
\* hands that both play the board tie
ThmC2 ==
    /\ pc \in {"compared", "reversed"} =>
         LET s1 == ScoreOf(result.value)
             s2 == ScoreOf(result2.value)
         IN /\ ~cmp.raised
            /\ cmp.value = (IF LexLess(s2, s1) THEN 1 ELSE IF LexLess(s1, s2) THEN -1 ELSE 0)
            /\ cmp.value = 0 <=> /\ result.value.rank = result2.value.rank
                                 /\ result.value.kickers = result2.value.kickers
            /\ /\ Len(board) = 5
               /\ s1 = ScoreOf(_evaluate_five(board))
               /\ s2 = ScoreOf(_evaluate_five(board))
               => cmp.value = 0
    /\ pc = "reversed" => ~cmpRev.raised /\ cmpRev.value = 0 - cmp.value

\* two hands of different cards both play a five-card board and tie, in
\* either order
WitC2 ==
    /\ pc = "reversed" /\ Len(board) = 5
    /\ ScoreOf(result.value) = ScoreOf(_evaluate_five(board))
    /\ ScoreOf(result2.value) = ScoreOf(_evaluate_five(board))
    /\ \A i, j \in 1..2 : hole[i].rank # hand2[j].rank \/ hole[i].suit # hand2[j].suit
    /\ cmp.value = 0 /\ cmpRev.value = 0

\* C6: with at least 5 cards, evaluate_hand returns the same rank, category
\* and kickers for any permutation of the hole cards and any permutation of
\* the board cards
ThmC6 ==
    pc = "reordered" =>
        /\ ~result.raised /\ ~result2.raised
        /\ result2.value.rank = result.value.rank
        /\ result2.value.category = result.value.category
        /\ result2.value.kickers = result.value.kickers

\* seven cards evaluated again with the hole cards exchanged and the board
\* reversed
WitC6 ==
    /\ pc = "reordered" /\ Len(board) = 5
    /\ hole = <<cards[2], cards[1]>>
    /\ board = <<cards[7], cards[6], cards[5], cards[4], cards[3]>>
    /\ result2.value.kickers = result.value.kickers

(***************************************************************************)
(* What the range notation says, stated without the parser.                *)
(***************************************************************************)
CanonicalClasses == Range(ALL_PAIRS) \cup ALL_SUITED \cup ALL_OFFSUIT

EndsWithPlus(t) == t # <<>> /\ t[Len(t)] = "+"

\* a literal class, a plus-range of a class, or a dash-range of two pairs or
\* of two classes with the same high rank and kind
WellFormedTerm(t) ==
    \/ t \in CanonicalClasses
    \/ EndsWithPlus(t) /\ SubSeq(t, 1, Len(t) - 1) \in CanonicalClasses
    \/ \E i \in DOMAIN t :
          /\ t[i] = "-"
          /\ LET start == SubSeq(t, 1, i - 1)
                 end == SubSeq(t, i + 1, Len(t))
             IN \/ start \in Range(ALL_PAIRS) /\ end \in Range(ALL_PAIRS)
                \/ /\ start \in ALL_SUITED \cup ALL_OFFSUIT
                   /\ end \in ALL_SUITED \cup ALL_OFFSUIT
                   /\ start[1] = end[1] /\ start[3] = end[3]

\* the terms of a range expression, blanks removed, empty terms left out
InputTerms(s) == Range(Split(RemoveSpaces(s), ",")) \ {<<>>}

Unranked(h) == \A i \in DOMAIN HAND_RANKING : HAND_RANKING[i] # h

\* the place of the first entry h of the table
TablePlace(h) == CHOOSE i \in DOMAIN HAND_RANKING :
                    HAND_RANKING[i] = h /\ \A j \in 1..(i - 1) : HAND_RANKING[j] # h

\* the unranked entries of a list, in the order of the list
RECURSIVE UnrankedOf(_)
UnrankedOf(hs) == IF hs = <<>> THEN <<>>
                  ELSE IF Unranked(Head(hs)) THEN <<Head(hs)>> \o UnrankedOf(Tail(hs))
                  ELSE UnrankedOf(Tail(hs))

\* a list without the later copies of its entries
RECURSIVE FirstCopies(_)
FirstCopies(hs) ==
    IF hs = <<>> THEN <<>>
    ELSE LET front == SubSeq(hs, 1, Len(hs) - 1)
             last == hs[Len(hs)]
         IN IF last \in Range(front) THEN FirstCopies(front)
            ELSE FirstCopies(front) \o <<last>>

\* the hands of the terms of s in the order in which the loop meets them
RECURSIVE Encountered(_)
Encountered(parts) ==
    IF parts = <<>> THEN <<>>
    ELSE PartHands(Head(parts)).value \o Encountered(Tail(parts))

\* C7 (as claimed): parse_range never raises, and every term that is not
\* well formed is in the list it returns, as written
ClaimC7 ==
    pc = "parsed" =>
        /\ ~parsed.raised
        /\ \A t \in InputTerms(range_str) :
              ~WellFormedTerm(t) => t \in Range(parsed.value)

\* C8: a list returned by parse_range holds no hand-class twice and is in
\* the order of the table, the hand-classes that are not in the table behind
\* all that are
ThmC8 ==
    pc = "parsed" /\ ~parsed.raised =>
        LET out == parsed.value
        IN \A i, j \in DOMAIN out : i < j =>
              /\ out[i] # out[j]
              /\ Unranked(out[i]) => Unranked(out[j])
              /\ ~Unranked(out[i]) /\ ~Unranked(out[j])
                    => TablePlace(out[i]) <= TablePlace(out[j])

\* "QQ+,QQ", two overlapping terms, has been parsed to AA, KK, QQ
WitC8 ==
    /\ pc = "parsed"
    /\ range_str = <<"Q", "Q", "+", ",", "Q", "Q">>
    /\ ~parsed.raised
    /\ parsed.value = << <<"A", "A">>, <<"K", "K">>, <<"Q", "Q">> >>

\* C9 (as claimed): the hand-classes of the output that are not in the table
\* are in the order in which the input first names them
ClaimC9 ==
    pc = "parsed" /\ ~parsed.raised =>
        UnrankedOf(parsed.value) =
            UnrankedOf(FirstCopies(Encountered(Split(RemoveSpaces(range_str), ","))))

\* C10 (as claimed): the table has 169 entries, every canonical hand-class
\* exactly once and nothing else, 1326 combinations in all, and no canonical
\* hand-class is treated as unranked
ClaimC10 ==
    pc \in {"range", "parsed"} =>
        /\ Len(HAND_RANKING) = 169
        /\ Cardinality(CanonicalClasses) = 169
        /\ \A h \in CanonicalClasses :
              Cardinality({i \in DOMAIN HAND_RANKING : HAND_RANKING[i] = h}) = 1
        /\ Range(HAND_RANKING) \subseteq CanonicalClasses
        /\ total_combos(HAND_RANKING) = 1326
        /\ \A h \in CanonicalClasses : _hand_strength_index(h) < Len(HAND_RANKING)

(***************************************************************************)
(* parse_range on one plus-range or dash-range term, and then on the dash  *)
(* term with its endpoints exchanged.                                      *)
(***************************************************************************)
Kinds == {"s", "o"}

\* "RR+" for every rank, "<high><low><kind>+" for every two ranks
PlusTerms ==
    {<<RANKS[i], RANKS[i], "+">> : i \in DOMAIN RANKS} \cup
    {<<RANKS[i], RANKS[j], k, "+">> : i \in DOMAIN RANKS, j \in DOMAIN RANKS, k \in Kinds}

\* "start-end"
Dash(start, end) == start \o <<"-">> \o end

\* the dash terms of two pairs, and of two suited or two offsuit classes with
\* the same high rank
DashTerms ==
    {Dash(<<RANKS[i], RANKS[i]>>, <<RANKS[j], RANKS[j]>>) :
        i \in DOMAIN RANKS, j \in DOMAIN RANKS} \cup
    {Dash(<<RANKS[hij[1]], RANKS[hij[2]], k>>, <<RANKS[hij[1]], RANKS[hij[3]], k>>) :
        k \in Kinds,
        hij \in {hij \in (DOMAIN RANKS) \X (DOMAIN RANKS) \X (DOMAIN RANKS) :
                    hij[2] < hij[1] /\ hij[3] < hij[1]}}

\* endpoints of several shapes
MixedEnds == {<<"A", "A">>, <<"2", "2">>, <<"A", "K", "s">>, <<"A", "Q", "s">>,
              <<"A", "Q", "o">>, <<"K", "Q", "s">>, <<"A", "2", "o">>, <<"A">>,
              <<"A", "K">>, <<>>}

\* both pairs, or both of three characters with the same first and last
SameShape(start, end) ==
    \/ /\ Len(start) = 2 /\ Len(end) = 2
       /\ start[1] = start[2] /\ end[1] = end[2]
    \/ /\ Len(start) = 3 /\ Len(end) = 3
       /\ start[1] = end[1] /\ start[3] = end[3]

MixedTerms == {Dash(se[1], se[2]) :
                  se \in {se \in MixedEnds \X MixedEnds : ~SameShape(se[1], se[2])}}

\* the endpoints of a term with one dash
DashAt(t) == CHOOSE i \in DOMAIN t : t[i] = "-"

StartOf(t) == SubSeq(t, 1, DashAt(t) - 1)

EndOf(t) == SubSeq(t, DashAt(t) + 1, Len(t))

HasDash(t) == \E i \in DOMAIN t : t[i] = "-"

InitTerm ==
    /\ NoDeck
    /\ hand_notation2 = <<>>
    /\ pc = "range"
    /\ range_str \in PlusTerms \cup DashTerms \cup MixedTerms
    /\ parsed = NotRun
    /\ NoHands
    /\ NoCalls

\* parse_range on the term with its endpoints exchanged, in the same run of
\* the interpreter: when the same hands are added to the set in the same
\* order, the set is iterated in the same order as before
ParseSwapped ==
    /\ pc = "parsed" /\ HasDash(range_str)
    /\ LET swapped == Dash(EndOf(range_str), StartOf(range_str))
       IN \E o \in parse_range(swapped) :
             /\ PartHands(swapped) = PartHands(range_str) => o = parsed
             /\ ret2' = o
    /\ pc' = "swapped"
    /\ UNCHANGED <<cards, hole, hand2, board, result, result2, cmp, cmpRev, rangeVars,
                   hand_notation, pct, pct2, villain_range, hero_cards, rank_str,
                   suit_str, ret, ret3,
                   deckVars, hand_notation2>>

NextTerm == ParseRange \/ ParseSwapped

SpecTerm == InitTerm /\ [][NextTerm]_vars

\* v lies between a and b, whichever is the lower
Between(a, v, b) == (a <= v /\ v <= b) \/ (b <= v /\ v <= a)

\* what "<base>+" denotes
ExpectPlus(base) ==
    IF Len(base) = 2
    THEN {<<r, r>> : r \in {x \in Range(RANKS) : RANK_VALUES[x] >= RANK_VALUES[base[1]]}}
    ELSE {<<base[1], r, base[3]>> :
             r \in {x \in Range(RANKS) : /\ RANK_VALUES[x] >= RANK_VALUES[base[2]]
                                         /\ RANK_VALUES[x] < RANK_VALUES[base[1]]}}

\* what "start-end" denotes when the endpoints share a shape
ExpectDash(start, end) ==
    IF Len(start) = 2
    THEN {<<r, r>> : r \in {x \in Range(RANKS) :
             Between(RANK_VALUES[start[1]], RANK_VALUES[x], RANK_VALUES[end[1]])}}
    ELSE {<<start[1], r, start[3]>> : r \in {x \in Range(RANKS) :
             Between(RANK_VALUES[start[2]], RANK_VALUES[x], RANK_VALUES[end[2]])}}

\* the entries of a list are pairwise different
NoRepeat(hs) == \A i, j \in DOMAIN hs : i # j => hs[i] # hs[j]

\* C11: for a plus-range term parse_range returns, each once, exactly the
\* pairs from the base rank up to AA when the base is a pair RR, and exactly
\* the hands <high><x><kind> with x from <low> up to but excluding <high>
\* when the base is <high><low><kind>; the hands of a canonical base are
\* canonical hand-classes
ThmC11 ==
    pc = "parsed" /\ EndsWithPlus(range_str) =>
        LET base == SubSeq(range_str, 1, Len(range_str) - 1)
        IN /\ ~parsed.raised
           /\ Range(parsed.value) = ExpectPlus(base)
           /\ NoRepeat(parsed.value)
           /\ base \in CanonicalClasses => Range(parsed.value) \subseteq CanonicalClasses
           /\ base = <<"T", "T">> =>
                 Range(parsed.value) = {<<"T", "T">>, <<"J", "J">>, <<"Q", "Q">>,
                                        <<"K", "K">>, <<"A", "A">>}

\* "ATs+" has been parsed to AKs, AQs, AJs, ATs
WitC11 ==
    /\ pc = "parsed"
    /\ range_str = <<"A", "T", "s", "+">>
    /\ ~parsed.raised
    /\ parsed.value = << <<"A", "K", "s">>, <<"A", "Q", "s">>, <<"A", "J", "s">>,
                         <<"A", "T", "s">> >>

\* C12: for a dash term of two pairs, or of two suited or two offsuit
\* classes with the same high rank, parse_range returns, each once, exactly
\* the hand-classes whose varying rank lies between those of the endpoints,
\* both included, and returns the same list for the term with the endpoints
\* exchanged; a dash term whose endpoints do not share a shape is returned as
\* the one literal
ThmC12 ==
    /\ pc \in {"parsed", "swapped"} /\ HasDash(range_str) =>
          LET start == StartOf(range_str)
              end == EndOf(range_str)
          IN /\ ~parsed.raised
             /\ SameShape(start, end) =>
                   /\ Range(parsed.value) = ExpectDash(start, end)
                   /\ NoRepeat(parsed.value)
                   /\ Range(parsed.value) \subseteq CanonicalClasses
             /\ ~SameShape(start, end) => parsed.value = <<range_str>>
    /\ pc = "swapped" /\ SameShape(StartOf(range_str), EndOf(range_str)) =>
          /\ ~ret2.raised
          /\ ret2.value = parsed.value

\* "KQs-KTs", the higher endpoint first, has been parsed to KQs, KJs, KTs as
\* "KTs-KQs" is
WitC12 ==
    /\ pc = "swapped"
    /\ range_str = <<"K", "Q", "s", "-", "K", "T", "s">>
    /\ parsed.value = << <<"K", "Q", "s">>, <<"K", "J", "s">>, <<"K", "T", "s">> >>
    /\ ret2.value = parsed.value

(***************************************************************************)
(* combo_count: the argument is a canonical hand-class or any string of up *)
(* to MaxNotation characters of NotationChars.                             *)
(***************************************************************************)
MaxNotation == 4

NotationChars == {"A", "K", "X", "s", "o", "h"}

\* the strings of up to n characters
Strings(chars, n) == UNION {[1..k -> chars] : k \in 0..n}

InitCount ==
    /\ NoDeck
    /\ hand_notation2 = <<>>
    /\ pc = "count"
    /\ hand_notation \in CanonicalClasses \cup Strings(NotationChars, MaxNotation)
    /\ pct = 0 /\ pct2 = 0
    /\ villain_range = <<>> /\ hero_cards = <<>>
    /\ rank_str = <<>> /\ suit_str = <<>>
    /\ ret = NotRun /\ ret2 = NotRun /\ ret3 = NotRun
    /\ range_str = <<>> /\ parsed = NotRun
    /\ NoHands

ComboCount ==
    /\ pc = "count"
    /\ ret' = Returned(combo_count(hand_notation))
    /\ pc' = "counted"
    /\ UNCHANGED <<cards, hole, hand2, board, result, result2, cmp, cmpRev, rangeVars,
                   hand_notation, pct, pct2, villain_range, hero_cards, rank_str,
                   suit_str, ret2, ret3,
                   deckVars, hand_notation2>>

NextCount == ComboCount

SpecCount == InitCount /\ [][NextCount]_vars

\* C13 (as claimed): combo_count returns 6 for the 13 pair classes, 4 for
\* the suited and 12 for the offsuit classes, and 0 for every other string
ClaimC13 ==
    pc = "counted" =>
        ret.value = (IF hand_notation \in Range(ALL_PAIRS) THEN 6
                     ELSE IF hand_notation \in ALL_SUITED THEN 4
                     ELSE IF hand_notation \in ALL_OFFSUIT THEN 12
                     ELSE 0)

(***************************************************************************)
(* range_from_top_pct on two percentages: pct is any multiple of 1/PctDen  *)
(* percent up to 100, pct2 is the next multiple or a multiple of 5         *)
(* percent, and each may be out of range.                                  *)
(***************************************************************************)
\* percentages that are not valid, in units of 1/PctDen percent
BadPcts == {-1, 0, 100 * PctDen + 1, 101 * PctDen}

InitTop ==
    /\ NoDeck
    /\ hand_notation2 = <<>>
    /\ pc = "top"
    /\ pct \in (1..(100 * PctDen)) \cup BadPcts
    /\ pct2 \in {k * 5 * PctDen : k \in 1..20} \cup {pct + 1} \cup BadPcts
    /\ hand_notation = <<>>
    /\ villain_range = <<>> /\ hero_cards = <<>>
    /\ rank_str = <<>> /\ suit_str = <<>>
    /\ ret = NotRun /\ ret2 = NotRun /\ ret3 = NotRun
    /\ range_str = <<>> /\ parsed = NotRun
    /\ NoHands

RangeFromTopPct ==
    /\ pc = "top"
    /\ ret' = range_from_top_pct(pct)
    /\ pc' = "top1"
    /\ UNCHANGED <<cards, hole, hand2, board, result, result2, cmp, cmpRev, rangeVars,
                   hand_notation, pct, pct2, villain_range, hero_cards, rank_str,
                   suit_str, ret2, ret3,
                   deckVars, hand_notation2>>

RangeFromTopPct2 ==
    /\ pc = "top1"
    /\ ret2' = range_from_top_pct(pct2)
    /\ pc' = "top2"
    /\ UNCHANGED <<cards, hole, hand2, board, result, result2, cmp, cmpRev, rangeVars,
                   hand_notation, pct, pct2, villain_range, hero_cards, rank_str,
                   suit_str, ret, ret3,
                   deckVars, hand_notation2>>

NextTop == RangeFromTopPct \/ RangeFromTopPct2

SpecTop == InitTop /\ [][NextTop]_vars

ValidPct(p) == p > 0 /\ p <= 100 * PctDen

\* hs is the first Len(hs) entries of the table
TablePrefix(hs) == Len(hs) <= Len(HAND_RANKING) /\ hs = SubSeq(HAND_RANKING, 1, Len(hs))

\* what C14 says of the list returned for the percentage p
TopPrefix(p, hs) ==
    LET total == total_combos(hs)
    IN /\ hs # <<>>
       /\ TablePrefix(hs)
       /\ total * 100 * PctDen <= 1326 * p \/ hs = <<HAND_RANKING[1]>>
       /\ \/ Len(hs) = Len(HAND_RANKING)
          \/ (total + combo_count(HAND_RANKING[Len(hs) + 1])) * 100 * PctDen > 1326 * p
          \/ total * 100 * PctDen = 1326 * p

\* C14: for 0 < pct <= 100, range_from_top_pct returns a non-empty prefix of
\* the table whose total_combos is at most pct / 100 * 1326 unless it is the
\* top class alone, and no longer prefix will do: the next entry of the
\* table, if there is one, takes the total above the target, or the total is
\* the target
ThmC14 ==
    /\ pc \in {"top1", "top2"} /\ ValidPct(pct) => ~ret.raised /\ TopPrefix(pct, ret.value)
    /\ pc = "top2" /\ ValidPct(pct2) => ~ret2.raised /\ TopPrefix(pct2, ret2.value)

\* a quarter of a percent, 3.315 combinations, has returned AA alone, with 6
WitC14 ==
    /\ pc = "top1" /\ pct * 4 = PctDen
    /\ ret.value = << <<"A", "A">> >>
    /\ total_combos(ret.value) * 100 * PctDen > 1326 * pct

\* C15: for valid percentages, the smaller one gets a prefix of the list of
\* the larger one, with no more combinations in all
ThmC15 ==
    pc = "top2" /\ ValidPct(pct) /\ ValidPct(pct2) =>
        LET small == IF pct < pct2 THEN ret.value ELSE ret2.value
            large == IF pct < pct2 THEN ret2.value ELSE ret.value
        IN /\ total_combos(small) <= total_combos(large)
           /\ Len(small) <= Len(large)
           /\ small = SubSeq(large, 1, Len(small))

\* 10 and 50 percent: the shorter list is the head of the longer one
WitC15 ==
    /\ pc = "top2" /\ pct = 10 * PctDen /\ pct2 = 50 * PctDen
    /\ Len(ret.value) < Len(ret2.value)
    /\ ret.value = SubSeq(ret2.value, 1, Len(ret.value))
    /\ total_combos(ret.value) < total_combos(ret2.value)

(***************************************************************************)
(* The blocker filter: blockers_remove on a range and a list of up to      *)
(* MaxDead dead cards of DeadDomain, in any order and with repeats, then   *)
(* on its own result and on the dead cards listed once each; and           *)
(* blocked_combos on a hand notation and the same lists.                   *)
(***************************************************************************)
MaxDead == 4

DeadDomain == {Card("A", "s"), Card("A", "h"), Card("A", "d"), Card("A", "c"),
               Card("K", "s")}

BlockerRanges == {
    <<>>,
    << <<"A", "A">> >>,
    << <<"A", "K", "s">> >>,
    << <<"A", "K", "o">> >>,
    << <<"A", "A">>, <<"K", "K">>, <<"Q", "Q">> >>,
    << <<"Q", "Q">>, <<"A", "K", "s">>, <<"A", "A">> >>,
    << <<"A", "K", "o">>, <<"K", "K">>, <<"A", "K", "s">>, <<"A", "Q", "o">> >>,
    << <<"A", "A">>, <<"K", "Q", "s">>, <<"A", "A">> >>,
    << <<"K", "2", "o">>, <<"A", "2", "s">>, <<"2", "2">> >>
}

BlockedNotations == {
    <<"A", "A">>, <<"K", "K">>, <<"Q", "Q">>, <<"A", "K", "s">>, <<"A", "K", "o">>,
    <<"K", "Q", "s">>, <<"A", "2", "o">>,
    <<"A", "s", "K", "h">>, <<"A", "s", "A", "h">>, <<"a", "S", "k", "H">>,
    <<"Q", "d", "Q", "c">>,
    <<" ", "A", "A">>,
    <<"A", "A", "s">>, <<"X", "X">>, <<"A", "K", "x">>, <<"A", "X", "s">>,
    <<"A", "s", "K", "x">>, <<"A">>, <<>>
}

\* the lists of up to n cards of a set
CardLists(S, n) == UNION {[1..k -> S] : k \in 0..n}

InitBlock ==
    /\ NoDeck
    /\ hand_notation2 = <<>>
    /\ \/ /\ pc = "block"
          /\ villain_range \in BlockerRanges
          /\ hand_notation = <<>>
       \/ /\ pc = "blocked"
          /\ villain_range = <<>>
          /\ hand_notation \in BlockedNotations
    /\ hero_cards \in CardLists(DeadDomain, MaxDead)
    /\ pct = 0 /\ pct2 = 0
    /\ rank_str = <<>> /\ suit_str = <<>>
    /\ ret = NotRun /\ ret2 = NotRun /\ ret3 = NotRun
    /\ range_str = <<>> /\ parsed = NotRun
    /\ NoHands

BlockersRemove ==
    /\ pc = "block"
    /\ ret' = blockers_remove(villain_range, hero_cards)
    /\ pc' = "removed"
    /\ UNCHANGED <<cards, hole, hand2, board, result, result2, cmp, cmpRev, rangeVars,
                   hand_notation, pct, pct2, villain_range, hero_cards, rank_str,
                   suit_str, ret2, ret3,
                   deckVars, hand_notation2>>

\* blockers_remove on its own result
BlockersAgain ==
    /\ pc = "removed" /\ ~ret.raised
    /\ ret2' = blockers_remove(ret.value, hero_cards)
    /\ pc' = "again"
    /\ UNCHANGED <<cards, hole, hand2, board, result, result2, cmp, cmpRev, rangeVars,
                   hand_notation, pct, pct2, villain_range, hero_cards, rank_str,
                   suit_str, ret, ret3,
                   deckVars, hand_notation2>>

\* blockers_remove with the dead cards listed once each, in deck order
BlockersRelisted ==
    /\ pc = "again"
    /\ ret3' = blockers_remove(villain_range, DeckSeq(Range(hero_cards)))
    /\ pc' = "relisted"
    /\ UNCHANGED <<cards, hole, hand2, board, result, result2, cmp, cmpRev, rangeVars,
                   hand_notation, pct, pct2, villain_range, hero_cards, rank_str,
                   suit_str, ret, ret2,
                   deckVars, hand_notation2>>

BlockedCombos ==
    /\ pc = "blocked"
    /\ ret' = blocked_combos(hand_notation, hero_cards)
    /\ pc' = "tallied"
    /\ UNCHANGED <<cards, hole, hand2, board, result, result2, cmp, cmpRev, rangeVars,
                   hand_notation, pct, pct2, villain_range, hero_cards, rank_str,
                   suit_str, ret2, ret3,
                   deckVars, hand_notation2>>

\* blocked_combos with the dead cards listed once each, in deck order
BlockedRelisted ==
    /\ pc = "tallied"
    /\ ret3' = blocked_combos(hand_notation, DeckSeq(Range(hero_cards)))
    /\ pc' = "retallied"
    /\ UNCHANGED <<cards, hole, hand2, board, result, result2, cmp, cmpRev, rangeVars,
                   hand_notation, pct, pct2, villain_range, hero_cards, rank_str,
                   suit_str, ret, ret2,
                   deckVars, hand_notation2>>

NextBlock == \/ BlockersRemove \/ BlockersAgain \/ BlockersRelisted
             \/ BlockedCombos \/ BlockedRelisted

SpecBlock == InitBlock /\ [][NextBlock]_vars

(***************************************************************************)
(* What a hand-class denotes: its two-card combinations, each a set of two *)
(* cards.                                                                  *)
(***************************************************************************)
SuitSet == Range(SUITS)

ClassCombos(h) ==
    IF Len(h) = 2 THEN
        {{Card(h[1], a), Card(h[2], b)} : a \in SuitSet, b \in SuitSet} \ 
        {{Card(h[1], a)} : a \in SuitSet}
    ELSE IF h[3] = "s" THEN {{Card(h[1], a), Card(h[2], a)} : a \in SuitSet}
    ELSE {{Card(h[1], ab[1]), Card(h[2], ab[2])} :
             ab \in {ab \in SuitSet \X SuitSet : ab[1] # ab[2]}}

\* some combination of the hand-class h holds no card of D
Alive(h, D) == \E combo \in ClassCombos(h) : combo \cap D = {}

\* C16: for a list of canonical hand-classes and any dead cards,
\* blockers_remove returns the hand-classes of the list that have a
\* combination without a dead card, in the order of the list; a hand-class
\* is dropped iff each of its combinations holds a dead card
ThmC16 ==
    pc \in {"removed", "again", "relisted"} =>
        /\ Range(villain_range) \subseteq CanonicalClasses
        /\ ~ret.raised
        /\ ret.value = SelectSeq(villain_range, LAMBDA h : Alive(h, Range(hero_cards)))
        /\ \A i \in DOMAIN villain_range :
              villain_range[i] \notin Range(ret.value) <=>
                 \A combo \in ClassCombos(villain_range[i]) :
                    combo \cap Range(hero_cards) # {}

\* three aces are dead: of QQ, AKs, AA the last is dropped, and AKs is kept
\* for its one combination of clubs
WitC16 ==
    /\ pc = "removed"
    /\ villain_range = << <<"Q", "Q">>, <<"A", "K", "s">>, <<"A", "A">> >>
    /\ Range(hero_cards) = {Card("A", "s"), Card("A", "h"), Card("A", "d")}
    /\ ret.value = << <<"Q", "Q">>, <<"A", "K", "s">> >>

\* C17: blockers_remove on its own result and the same dead cards returns
\* that result, and blockers_remove and blocked_combos return the same for
\* the dead cards listed once each in deck order as for any list of them
ThmC17 ==
    /\ pc \in {"again", "relisted"} => ~ret2.raised /\ ret2 = ret
    /\ pc \in {"relisted", "retallied"} => ret3 = ret

\* a list that names the ace of hearts twice and is not in deck order: AA is
\* dropped, and the second call and the call on the cards in deck order
\* return the same
WitC17 ==
    /\ pc = "relisted"
    /\ hero_cards = <<Card("A", "h"), Card("A", "s"), Card("A", "h"), Card("A", "d")>>
    /\ villain_range = << <<"Q", "Q">>, <<"A", "K", "s">>, <<"A", "A">> >>
    /\ ret.value = << <<"Q", "Q">>, <<"A", "K", "s">> >>
    /\ ret2 = ret /\ ret3 = ret

\* the combinations of a notation: of a hand-class, or the one combination
\* of a four-character hand
NotationCombos(h) ==
    IF h \in CanonicalClasses THEN ClassCombos(h)
    ELSE {{Card(Upper(h[1]), Lower(h[2])), Card(Upper(h[3]), Lower(h[4]))}}

\* C(n, 2)
Choose2(n) == (n * (n - 1)) \div 2

\* C18 (as claimed): for a hand-class or a four-character hand that
\* blocked_combos accepts, the number returned is the number of combinations
\* of the notation that hold a dead card, from 0 to the number of its
\* combinations; for a pair with k dead cards of its rank it is 6 - C(4 - k, 2)
ClaimC18 ==
    /\ pc \in {"tallied", "retallied"}
    /\ ~ret.raised
    /\ hand_notation \in CanonicalClasses \/ Len(hand_notation) = 4
    => LET D == Range(hero_cards)
           combos == NotationCombos(hand_notation)
       IN /\ ret.value = Cardinality({combo \in combos : combo \cap D # {}})
          /\ ret.value >= 0 /\ ret.value <= Cardinality(combos)
          /\ hand_notation \in Range(ALL_PAIRS) =>
                ret.value = 6 - Choose2(4 - Cardinality({c \in D : c.rank = hand_notation[1]}))

(***************************************************************************)
(* Card(rank, suit) on strings of up to MaxCardStr characters, and the     *)
(* value of the card constructed.                                          *)
(***************************************************************************)
MaxCardStr == 2

RankChars == {"2", "3", "K", "A", "X", "a"}

SuitChars == {"s", "h", "x", "S"}

InitCard ==
    /\ NoDeck
    /\ hand_notation2 = <<>>
    /\ pc = "card"
    /\ rank_str \in Strings(RankChars, MaxCardStr)
    /\ suit_str \in Strings(SuitChars, MaxCardStr)
    /\ hand_notation = <<>> /\ pct = 0 /\ pct2 = 0
    /\ villain_range = <<>> /\ hero_cards = <<>>
    /\ ret = NotRun /\ ret2 = NotRun /\ ret3 = NotRun
    /\ range_str = <<>> /\ parsed = NotRun
    /\ NoHands

\* Card(rank_str, suit_str)
NewCard ==
    /\ pc = "card"
    /\ ret' = Card__post_init__(rank_str, suit_str)
    /\ pc' = "made"
    /\ UNCHANGED <<cards, hole, hand2, board, result, result2, cmp, cmpRev, rangeVars,
                   hand_notation, pct, pct2, villain_range, hero_cards, rank_str,
                   suit_str, ret2, ret3,
                   deckVars, hand_notation2>>

\* the value of the card that was constructed
ReadValue ==
    /\ pc = "made" /\ ~ret.raised
    /\ ret2' = CardValue(ret.value)
    /\ pc' = "valued"
    /\ UNCHANGED <<cards, hole, hand2, board, result, result2, cmp, cmpRev, rangeVars,
                   hand_notation, pct, pct2, villain_range, hero_cards, rank_str,
                   suit_str, ret, ret3,
                   deckVars, hand_notation2>>

NextCard == NewCard \/ ReadValue

SpecCard == InitCard /\ [][NextCard]_vars

\* C19 (as claimed): Card fails unless the rank is one of the 13 characters
\* of RANKS and the suit one of the 4 characters of SUITS, and every card
\* constructed has a value in 2..14
ClaimC19 ==
    /\ pc \in {"made", "valued"} =>
          (ret.raised <=> ~(/\ Len(rank_str) = 1 /\ rank_str[1] \in Range(RANKS)
                            /\ Len(suit_str) = 1 /\ suit_str[1] \in Range(SUITS)))
    /\ pc = "valued" => ~ret2.raised /\ ret2.value \in 2..14

\* C20: evaluate_hand raises, and returns nothing, exactly when hole and
\* board together hold fewer than 5 cards; with 5 or more it returns a
\* HandResult: a rank 0..9 with its category and five of the cards given
ThmC20 ==
    pc = "evaluated" =>
        /\ result.raised <=> Len(hole) + Len(board) < 5
        /\ result.raised => result.value = "ValueError"
        /\ ~result.raised =>
              /\ result.value.rank \in 0..9
              /\ result.value.category \in DOMAIN HAND_RANKS
              /\ HAND_RANKS[result.value.category] = result.value.rank
              /\ Len(result.value.cards) = 5
              /\ Range(result.value.cards) \subseteq Range(hole \o board)

\* two hole cards and a board of two: four cards, and the call has raised
WitC20 ==
    /\ pc = "evaluated"
    /\ Len(hole) = 2 /\ Len(board) = 2
    /\ result = Raised("ValueError")

\* hs is a list of hand-classes
IsRange(hs) ==
    /\ DOMAIN hs = 1..Len(hs)
    /\ \A i \in DOMAIN hs : hs[i] \in CanonicalClasses

\* what C21 says of the outcome o of the call on p units of 1/PctDen percent
FailsExactlyOutside(p, o) ==
    /\ o.raised <=> (p <= 0 \/ p > 100 * PctDen)
    /\ p > 0 /\ p <= 100 * PctDen => ~o.raised /\ IsRange(o.value)

\* C21: range_from_top_pct fails exactly when pct <= 0 or pct > 100, so for
\* 0 and for 101, and returns a range for every pct of (0, 100], 100 too
ThmC21 ==
    /\ pc \in {"top1", "top2"} => FailsExactlyOutside(pct, ret)
    /\ pc = "top2" => FailsExactlyOutside(pct2, ret2)
    /\ pc \in {"top1", "top2"} /\ pct \in {0, 101 * PctDen} => ret.raised
    /\ pc \in {"top1", "top2"} /\ pct = 100 * PctDen => ~ret.raised

\* 101 percent has failed and 100 percent has returned the whole table
WitC21 ==
    /\ pc = "top2" /\ pct = 101 * PctDen /\ pct2 = 100 * PctDen
    /\ ret.raised /\ ~ret2.raised
    /\ ret2.value = HAND_RANKING

(***************************************************************************)
(* A Deck: constructed on a list of excluded cards, then up to MaxCalls    *)
(* calls of shuffle() and deal(n).  The deck is the whole 52 cards or up   *)
(* to MaxDeck cards of KeepCards; n runs from -MaxBack to one more than    *)
(* MaxDeck, and is also the number of cards left and one more.             *)
(***************************************************************************)
MaxDeck == 4

MaxCalls == 3

\* the most cards a negative n counts back from the end of the deck
MaxBack == 2

KeepCards == {Card("A", "s"), Card("K", "s"), Card("K", "h"), Card("7", "d"),
              Card("2", "c")}

\* the lists of excluded cards: none, or all but some cards of KeepCards,
\* in the order of the deck, once with a card listed twice
ExcludeLists ==
    {<<>>} \cup
    {DeckSeq(Range(AllCards) \ kept) :
        kept \in {k \in SUBSET KeepCards : Cardinality(k) <= MaxDeck}} \cup
    {DeckSeq(Range(AllCards) \ KeepCards) \o <<Card("3", "s"), Card("3", "s")>>}

\* the orders random.shuffle may leave: every order of a deck of up to
\* MaxDeck cards; of a larger one the rotations by up to MaxDeck places,
\* forwards and backwards
Shuffles(cs) ==
    IF Len(cs) <= MaxDeck THEN {Permuted(cs, p) : p \in Permutations(DOMAIN cs)}
    ELSE {Rotated(cs, k) : k \in 0..MaxDeck} \cup
         {Reversed(Rotated(cs, k)) : k \in 0..MaxDeck}

DealSizes(cs) == ((0 - MaxBack)..(MaxDeck + 1)) \cup {Len(cs), Len(cs) + 1}

InitDeck ==
    /\ pc = "deck"
    /\ exclude \in ExcludeLists
    /\ deck_cards = <<>> /\ deal_n = 0 /\ dealt_so_far = <<>> /\ calls = 0
    /\ hand_notation2 = <<>>
    /\ range_str = <<>> /\ parsed = NotRun
    /\ NoHands
    /\ NoCalls

\* Deck(exclude)
NewDeck ==
    /\ pc = "deck"
    /\ deck_cards' = Deck__init__(exclude)
    /\ pc' = "ready"
    /\ UNCHANGED <<cards, hole, hand2, board, result, result2, cmp, cmpRev, rangeVars,
                   callVars, exclude, deal_n, dealt_so_far, calls, hand_notation2>>

\* deck.shuffle()
Shuffle ==
    /\ pc \in {"ready", "shuffled", "dealt"}
    /\ calls < MaxCalls
    /\ deck_cards' \in Shuffles(deck_cards)
    /\ calls' = calls + 1
    /\ pc' = "shuffled"
    /\ UNCHANGED <<cards, hole, hand2, board, result, result2, cmp, cmpRev, rangeVars,
                   callVars, exclude, deal_n, dealt_so_far, hand_notation2>>

\* deck.deal(n); the caller keeps what it is dealt
Deal ==
    /\ pc \in {"ready", "shuffled", "dealt"}
    /\ calls < MaxCalls
    /\ \E n \in DealSizes(deck_cards) :
          LET call == Deck_deal(deck_cards, n)
          IN /\ deal_n' = n
             /\ ret' = call.out
             /\ deck_cards' = call.cards
             /\ dealt_so_far' = IF call.out.raised THEN dealt_so_far
                                ELSE dealt_so_far \o call.out.value
    /\ calls' = calls + 1
    /\ pc' = "dealt"
    /\ UNCHANGED <<cards, hole, hand2, board, result, result2, cmp, cmpRev, rangeVars,
                   hand_notation, pct, pct2, villain_range, hero_cards, rank_str,
                   suit_str, ret2, ret3, exclude, hand_notation2>>

NextDeck == NewDeck \/ Shuffle \/ Deal

SpecDeck == InitDeck /\ [][NextDeck]_vars

\* the cards a deck starts with: the 52 but the excluded ones
InitialCards == Range(AllCards) \ Range(exclude)

\* the cards dealt and the cards left are the initial cards, each once
Conserved ==
    /\ Range(dealt_so_far) \cap Range(deck_cards) = {}
    /\ Range(dealt_so_far) \cup Range(deck_cards) = InitialCards
    /\ NoRepeat(dealt_so_far)
    /\ NoRepeat(deck_cards)

\* what a call of deal(n) does to the deck it is made on
DealStep ==
    pc' = "dealt" =>
        /\ deal_n' > Len(deck_cards) => ret'.raised /\ deck_cards' = deck_cards
        /\ 0 <= deal_n' /\ deal_n' <= Len(deck_cards) =>
              /\ ~ret'.raised
              /\ Len(ret'.value) = deal_n'
              /\ Len(deck_cards') = Len(deck_cards) - deal_n'

\* C22: after any shuffle() and deal(n) calls the cards dealt so far and
\* the cards left in the deck are disjoint and are together the initial
\* cards of the deck; a deal(n) with n above the cards left fails and leaves
\* the deck as it was, and one with 0 <= n <= len(deck) returns n cards and
\* takes len(deck) down by n
ThmC22 ==
    /\ [](pc \in {"ready", "shuffled", "dealt"} => Conserved)
    /\ [][DealStep]_vars

\* two cards have been dealt from a deck in an order that is not the one it
\* was built in, after an earlier deal, and cards are left
WitC22 ==
    /\ pc = "dealt" /\ ~ret.raised /\ deal_n = 2
    /\ Len(dealt_so_far) > 2
    /\ deck_cards # <<>>
    /\ dealt_so_far \o deck_cards # Deck__init__(exclude)

(***************************************************************************)
(* hand_combos on a canonical hand-class, then simplify_hand on one of its *)
(* combinations, the two cards in either order, or hand_combos on another  *)
(* hand-class.                                                             *)
(***************************************************************************)
InitCombos ==
    /\ NoDeck
    /\ pc = "class"
    /\ hand_notation \in CanonicalClasses
    /\ hand_notation2 = <<>>
    /\ pct = 0 /\ pct2 = 0
    /\ villain_range = <<>> /\ hero_cards = <<>>
    /\ rank_str = <<>> /\ suit_str = <<>>
    /\ ret = NotRun /\ ret2 = NotRun /\ ret3 = NotRun
    /\ range_str = <<>> /\ parsed = NotRun
    /\ NoHands

\* hand_combos(hand_notation)
HandCombos ==
    /\ pc = "class"
    /\ ret' = hand_combos(hand_notation)
    /\ pc' = "listed"
    /\ UNCHANGED <<cards, hole, hand2, board, result, result2, cmp, cmpRev, rangeVars,
                   hand_notation, pct, pct2, villain_range, hero_cards, rank_str,
                   suit_str, ret2, ret3, deckVars, hand_notation2>>

\* simplify_hand(list(combo)) or simplify_hand(list(reversed(combo))) for a
\* combo of the list returned
SimplifyHand ==
    /\ pc = "listed" /\ ~ret.raised
    /\ \E i \in DOMAIN ret.value : \E hand \in {ret.value[i], Reversed(ret.value[i])} :
          /\ cards' = hand
          /\ ret3' = simplify_hand(hand)
    /\ pc' = "simplified"
    /\ UNCHANGED <<hole, hand2, board, result, result2, cmp, cmpRev, rangeVars,
                   hand_notation, pct, pct2, villain_range, hero_cards, rank_str,
                   suit_str, ret, ret2, deckVars, hand_notation2>>

\* hand_combos(hand_notation2) for another hand-class
HandCombosOther ==
    /\ pc = "listed"
    /\ \E other \in CanonicalClasses \ {hand_notation} :
          /\ hand_notation2' = other
          /\ ret2' = hand_combos(other)
    /\ pc' = "paired"
    /\ UNCHANGED <<cards, hole, hand2, board, result, result2, cmp, cmpRev, rangeVars,
                   hand_notation, pct, pct2, villain_range, hero_cards, rank_str,
                   suit_str, ret, ret3, deckVars>>

NextCombos == HandCombos \/ SimplifyHand \/ HandCombosOther

SpecCombos == InitCombos /\ [][NextCombos]_vars

\* the combinations of a list of pairs of cards, each as a set of cards
AsSets(combos) == {{combos[i][1], combos[i][2]} : i \in DOMAIN combos}

\* every two-card combination of the 52 cards
TwoCardCombos ==
    {{AllCards[i], AllCards[j]} : i, j \in DOMAIN AllCards} \ {{c} : c \in Range(AllCards)}

\* the number of combinations the classes with combo_count n have in all
CountedAt(n) == n * Cardinality({h \in CanonicalClasses : combo_count(h) = n})

\* the 169 classes count 1326 combinations in all, and every two-card
\* combination of the deck is listed for one of them
CoveredOnce ==
    /\ Cardinality(CanonicalClasses) = 169
    /\ \A h \in CanonicalClasses : combo_count(h) \in {4, 6, 12}
    /\ CountedAt(4) + CountedAt(6) + CountedAt(12) = 1326
    /\ Cardinality(TwoCardCombos) = 1326
    /\ UNION {AsSets(hand_combos(h).value) : h \in CanonicalClasses} = TwoCardCombos

\* C23: for a canonical hand-class h, hand_combos(h) lists combo_count(h)
\* different combinations of two different cards, simplify_hand takes each of
\* them back to h, no combination is listed for two classes, and the 169
\* classes cover the 1326 two-card combinations of the deck, each once
ThmC23 ==
    /\ pc \in {"listed", "simplified", "paired"} =>
          /\ ~ret.raised
          /\ Len(ret.value) = combo_count(hand_notation)
          /\ Cardinality(AsSets(ret.value)) = Len(ret.value)
          /\ \A i \in DOMAIN ret.value :
                /\ ret.value[i][1] # ret.value[i][2]
                /\ {ret.value[i][1], ret.value[i][2]} \subseteq Range(AllCards)
          /\ CoveredOnce
    /\ pc = "simplified" => ret3 = Returned(hand_notation)
    /\ pc = "paired" => ~ret2.raised /\ AsSets(ret.value) \cap AsSets(ret2.value) = {}

\* the king of hearts and the ace of spades, a combination of AKo handed
\* over low card first, has been simplified to AKo
WitC23 ==
    /\ pc = "simplified"
    /\ hand_notation = <<"A", "K", "o">>
    /\ Len(ret.value) = 12
    /\ cards = <<Card("K", "h"), Card("A", "s")>>
    /\ ret3 = Returned(<<"A", "K", "o">>)

====
